---------------------------- MODULE Spec2Model ----------------------------
(***************************************************************************)
(* Model of scripts/ci/publish.ts, the release orchestrator of the prisma2 *)
(* development environment: dependency graph construction, cycle           *)
(* detection, affected-set resolution, version derivation, publish order   *)
(* and the test / publish / commit / push run.                             *)
(*                                                                         *)
(* Strings of the program are TLA+ strings; JavaScript arrays are          *)
(* sequences; objects keyed by package name are functions together with    *)
(* the sequence of their keys in insertion order.                          *)
(***************************************************************************)
EXTENDS Integers, Sequences, FiniteSets, TLC

(***************************************************************************)
(* String and array helpers (String.prototype.startsWith / includes,       *)
(* path.dirname, Array.prototype.includes / filter).                       *)
(***************************************************************************)
startsWith(s, p) == Len(p) <= Len(s) /\ SubSeq(s, 1, Len(p)) = p

includes(s, sub) ==
    \E i \in 1..(Len(s) - Len(sub) + 1) : SubSeq(s, i, i + Len(sub) - 1) = sub

\* s.slice(i - 1, j) and s.charAt(i - 1), in 1-based positions; "" outside the string
slice(s, i, j) == SubSeq(s, i, IF j > Len(s) THEN Len(s) ELSE j)

charAt(s, i) == slice(s, i, i)

\* path.dirname: everything before the last "/" ("." when there is none)
dirname(p) ==
    LET slashes == {i \in 1..Len(p) : charAt(p, i) = "/"}
    IN  IF slashes = {} THEN "."
        ELSE LET last == CHOOSE i \in slashes : \A j \in slashes : j <= i
             IN  SubSeq(p, 1, last - 1)

Range(seq) == {seq[i] : i \in 1..Len(seq)}

Contains(seq, x) == \E i \in 1..Len(seq) : seq[i] = x

\* arr.filter(keep) for a membership test given as a set
FilterIn(seq, S) == SelectSeq(seq, LAMBDA x : x \in S)

\* a flattening that concatenates the batches last to first
RECURSIVE flatten_Reversed(_)
flatten_Reversed(arr) ==
    IF arr = <<>> THEN <<>> ELSE flatten_Reversed(Tail(arr)) \o Head(arr)

\* flatten (publish.ts:660)
RECURSIVE flatten(_)
flatten(arr) == IF arr = <<>> THEN <<>> ELSE Head(arr) \o flatten(Tail(arr))

\* intersection (publish.ts:664)
intersection(arr1, arr2) == SelectSeq(arr1, LAMBDA v : Contains(arr2, v))

(***************************************************************************)
(* The workspace: the manifests found by getPackages.                      *)
(***************************************************************************)
Prisma2 == "prisma2"
Photon == "@prisma/photon"
Lift == "@prisma/lift"
Sdk == "@prisma/sdk"

\* the two packages the program names in ['@prisma/photon', 'prisma2']
Anchors == {Photon, Prisma2}

\* order in which globby yields the manifests: lift, prisma2/cli/**, photonjs/packages/**
LoadOrder == <<Lift, Prisma2, Sdk, Photon>>

Names == Range(LoadOrder)

PackagePath(n) ==
    CASE n = Lift -> "lift/package.json"
      [] n = Prisma2 -> "prisma2/cli/prisma2/package.json"
      [] n = Sdk -> "prisma2/cli/sdk/package.json"
      [] n = Photon -> "photonjs/packages/photon/package.json"

\* keys a manifest may carry in dependencies / devDependencies, in key order
DepKeys == <<Photon, Lift, Sdk, Prisma2, "@prisma/studio-transports", "@prisma/engine-core">>

\* getPrismaDependencies (publish.ts:311): keys of the workspace namespace
getPrismaDependencies(dependencies) ==
    SelectSeq(dependencies,
              LAMBDA d : startsWith(d, "@prisma") /\ ~startsWith(d, "@prisma/studio"))

\* a graph construction that records the dev dependents in usedBy as well
getPackageDependencies_DevInUsedBy(raw) ==
    LET uses(n) == getPrismaDependencies(raw[n].dependencies)
        usesDev(n) == getPrismaDependencies(raw[n].devDependencies)
    IN  [n \in DOMAIN raw |->
            [name |-> n,
             path |-> raw[n].path,
             version |-> raw[n].version,
             scripts |-> raw[n].scripts,
             uses |-> uses(n),
             usesDev |-> usesDev(n),
             usedBy |-> SelectSeq(LoadOrder,
                          LAMBDA a : a \in DOMAIN raw
                                     /\ Contains(uses(a) \o usesDev(a), n)),
             usedByDev |-> SelectSeq(LoadOrder,
                          LAMBDA a : a \in DOMAIN raw /\ Contains(usesDev(a), n))]]

\* getPackageDependencies (publish.ts:272): raw is a function from the loaded names
\* to [path, version, dependencies, devDependencies, scripts]
getPackageDependencies(raw) ==
    LET uses(n) == getPrismaDependencies(raw[n].dependencies)
        usesDev(n) == getPrismaDependencies(raw[n].devDependencies)
    IN  [n \in DOMAIN raw |->
            [name |-> n,
             path |-> raw[n].path,
             version |-> raw[n].version,
             scripts |-> raw[n].scripts,
             uses |-> uses(n),
             usesDev |-> usesDev(n),
             usedBy |-> SelectSeq(LoadOrder,
                          LAMBDA a : a \in DOMAIN raw /\ Contains(uses(a), n)),
             usedByDev |-> SelectSeq(LoadOrder,
                          LAMBDA a : a \in DOMAIN raw /\ Contains(usesDev(a), n))]]

\* Object.values(packages): the loaded packages in insertion order
ValuesOf(packages) == FilterIn(LoadOrder, DOMAIN packages)

\* a cycle check that compares the runtime lists only, leaving the dev lists out
getCircularDependencies_RuntimeOnly(packages) ==
    LET circlesOf(n) == intersection(packages[n].uses, packages[n].usedBy)
        RECURSIVE collect(_)
        collect(order) ==
            IF order = <<>> THEN <<>>
            ELSE (IF Len(circlesOf(Head(order))) > 0
                  THEN <<circlesOf(Head(order))>> ELSE <<>>) \o collect(Tail(order))
    IN  collect(ValuesOf(packages))

\* getCircularDependencies (publish.ts:322)
getCircularDependencies(packages) ==
    LET circlesOf(n) ==
            intersection(packages[n].uses \o packages[n].usesDev,
                         packages[n].usedBy \o packages[n].usedByDev)
        RECURSIVE collect(_)
        collect(order) ==
            IF order = <<>> THEN <<>>
            ELSE (IF Len(circlesOf(Head(order))) > 0
                  THEN <<circlesOf(Head(order))>> ELSE <<>>) \o collect(Tail(order))
    IN  collect(ValuesOf(packages))

(***************************************************************************)
(* getPackagesAffectedByChange (publish.ts:336).  The affected object is   *)
(* the sequence of its keys in insertion order.                            *)
(***************************************************************************)
\* the seed: changedPackages (publish.ts:342-348)
SeedPackages(packages, changes, prisma2AndPhotonOnly) ==
    IF prisma2AndPhotonOnly
    THEN SelectSeq(ValuesOf(packages), LAMBDA n : n \in {Photon, Prisma2})
    ELSE SelectSeq(ValuesOf(packages),
                   LAMBDA n : \E c \in changes : startsWith(c, dirname(packages[n].path)))

\* publish.ts:357-359
WithPhoton(seed) == IF Contains(seed, Photon) THEN seed ELSE Append(seed, Photon)

\* addDependants (publish.ts:361-374): acc is affectedPackages, threaded through the recursion
RECURSIVE addDependants(_, _, _)
RECURSIVE addEach(_, _, _)
\* a loop that adds a dependent again when it is already in the affected packages
RECURSIVE addEach_AddAgain(_, _, _)
addEach_AddAgain(packages, acc, list) ==
    IF list = <<>> THEN acc
    ELSE IF Contains(acc, Head(list))
         THEN addEach_AddAgain(packages, Append(acc, Head(list)), Tail(list))
         ELSE addEach_AddAgain(packages,
                               addDependants(packages, Append(acc, Head(list)), Head(list)),
                               Tail(list))

addEach(packages, acc, list) ==
    IF list = <<>> THEN acc
    ELSE IF Contains(acc, Head(list))
         THEN addEach(packages, acc, Tail(list))
         ELSE addEach(packages,
                      addDependants(packages, Append(acc, Head(list)), Head(list)),
                      Tail(list))
\* an expansion that follows the runtime dependents only
addDependants_RuntimeOnly(packages, acc, n) == addEach(packages, acc, packages[n].usedBy)

addDependants(packages, acc, n) ==
    addEach(packages, addEach(packages, acc, packages[n].usedBy), packages[n].usedByDev)

\* a loop that leaves the affected packages as they were seeded
addAll_SeedOnly(packages, acc, todo) == acc

\* publish.ts:376-378: the loop runs over the values present when it starts
RECURSIVE addAll(_, _, _)
addAll(packages, acc, todo) ==
    IF todo = <<>> THEN acc
    ELSE addAll(packages, addDependants(packages, acc, Head(todo)), Tail(todo))

AffectedNames(packages, changes, prisma2AndPhotonOnly) ==
    LET start == WithPhoton(SeedPackages(packages, changes, prisma2AndPhotonOnly))
    IN  addAll(packages, start, start)

(***************************************************************************)
(* getPublishOrder (publish.ts:410) and the batching topological sort it   *)
(* calls.                                                                  *)
(***************************************************************************)
\* a dag that leaves the dev dependents out
PublishDag_RuntimeOnly(packages, keys) == [n \in Range(keys) |-> packages[n].usedBy]

\* the dag handed to topo: keys in order `keys`, each mapped to its dependents
PublishDag(packages, keys) ==
    [n \in Range(keys) |-> packages[n].usedBy \o packages[n].usedByDev]

\* countInDegrees: [order |-> keys of counts in insertion order, deg |-> counts]
RECURSIVE countEdges(_, _)
countEdges(counts, dependents) ==
    IF dependents = <<>> THEN counts
    ELSE LET d == Head(dependents)
             known == Contains(counts.order, d)
         IN  countEdges([order |-> IF known THEN counts.order ELSE Append(counts.order, d),
                         deg |-> [x \in DOMAIN counts.deg \cup {d} |->
                                    IF x = d THEN (IF known THEN counts.deg[d] ELSE 0) + 1
                                    ELSE counts.deg[x]]],
                        Tail(dependents))

RECURSIVE countInDegrees(_, _, _)
countInDegrees(dag, keys, counts) ==
    IF keys = <<>> THEN counts
    ELSE LET vx == Head(keys)
             known == Contains(counts.order, vx)
             withVx == [order |-> IF known THEN counts.order ELSE Append(counts.order, vx),
                        deg |-> [x \in DOMAIN counts.deg \cup {vx} |->
                                   IF x = vx /\ ~known THEN 0 ELSE counts.deg[x]]]
         IN  countInDegrees(dag, Tail(keys), countEdges(withVx, dag[vx]))

\* one pass over the dependents of the current roots: [deg, newRoots]
RECURSIVE releaseEdges(_, _)
releaseEdges(st, dependents) ==
    IF dependents = <<>> THEN st
    ELSE LET d == Head(dependents)
             deg2 == [st.deg EXCEPT ![d] = @ - 1]
         IN  releaseEdges([deg |-> deg2,
                           newRoots |-> IF deg2[d] = 0 THEN Append(st.newRoots, d)
                                        ELSE st.newRoots],
                          Tail(dependents))

RECURSIVE releaseRoots(_, _, _)
releaseRoots(dag, st, roots) ==
    IF roots = <<>> THEN st
    ELSE releaseRoots(dag, releaseEdges(st, dag[Head(roots)]), Tail(roots))

\* the while loop of the sort; a root that is no key of the dag has no dependents
\* list to iterate and raises a TypeError
RECURSIVE topoLoop(_, _, _, _, _)
topoLoop(dag, order, deg, roots, sorted) ==
    IF roots = <<>>
    THEN IF \E x \in Range(order) : deg[x] # 0
         THEN [error |-> "Cycle(s) detected", batches |-> <<>>]
         ELSE [error |-> "none", batches |-> sorted]
    ELSE IF \E r \in Range(roots) : r \notin DOMAIN dag
         THEN [error |-> "TypeError", batches |-> <<>>]
         ELSE LET st == releaseRoots(dag, [deg |-> deg, newRoots |-> <<>>], roots)
              IN  topoLoop(dag, order, st.deg, st.newRoots, Append(sorted, roots))

topo(dag, keys) ==
    LET counts == countInDegrees(dag, keys, [order |-> <<>>, deg |-> <<>>])
        roots == SelectSeq(counts.order, LAMBDA x : counts.deg[x] = 0)
    IN  topoLoop(dag, counts.order, counts.deg, roots, <<>>)

\* an order that puts every package in a batch of its own
getPublishOrder_OnePerBatch(packages, keys) ==
    LET sorted == topo(PublishDag(packages, keys), keys)
        flat == flatten(sorted.batches)
    IN  [error |-> sorted.error, batches |-> [i \in 1..Len(flat) |-> <<flat[i]>>]]

\* getPublishOrder over the packages whose keys, in insertion order, are `keys`
getPublishOrder(packages, keys) == topo(PublishDag(packages, keys), keys)

(***************************************************************************)
(* Version strings.  A value that JavaScript would coerce to a string      *)
(* before use is kept as that string: undefined is "undefined", null is    *)
(* "null".                                                                 *)
(***************************************************************************)
Undefined == "undefined"
Null == "null"

Digits == {"0", "1", "2", "3", "4", "5", "6", "7", "8", "9"}

Letters ==
    {"a", "b", "c", "d", "e", "f", "g", "h", "i", "j", "k", "l", "m",
     "n", "o", "p", "q", "r", "s", "t", "u", "v", "w", "x", "y", "z",
     "A", "B", "C", "D", "E", "F", "G", "H", "I", "J", "K", "L", "M",
     "N", "O", "P", "Q", "R", "S", "T", "U", "V", "W", "X", "Y", "Z"}

\* [0-9a-zA-Z-]
IdentChars == Digits \cup Letters \cup {"-"}

AllIn(s, S) == \A i \in 1..Len(s) : charAt(s, i) \in S

\* index of the first occurrence of the one-character string c in s, 0 when absent
IndexOf(s, c) ==
    LET hits == {i \in 1..Len(s) : charAt(s, i) = c}
    IN  IF hits = {} THEN 0 ELSE CHOOSE i \in hits : \A j \in hits : i <= j

\* s.split(c) for a one-character separator
RECURSIVE Split(_, _)
Split(s, c) ==
    LET i == IndexOf(s, c)
    IN  IF i = 0 THEN <<s>>
        ELSE <<SubSeq(s, 1, i - 1)>> \o Split(SubSeq(s, i + 1, Len(s)), c)

\* 0|[1-9]\d*
IsNumericId(s) ==
    /\ Len(s) > 0
    /\ AllIn(s, Digits)
    /\ (Len(s) > 1 => charAt(s, 1) # "0")

\* 0|[1-9]\d*|\d*[a-zA-Z-][0-9a-zA-Z-]*
IsPrereleaseId(s) ==
    /\ Len(s) > 0
    /\ AllIn(s, IdentChars)
    /\ (AllIn(s, Digits) => IsNumericId(s))

\* [0-9a-zA-Z-]+
IsBuildId(s) == Len(s) > 0 /\ AllIn(s, IdentChars)

\* The regular expression of patchVersion (publish.ts:676), anchored at both ends:
\* [matched, major, minor, patch, prerelease, buildmetadata]
NoMatch == [matched |-> FALSE, major |-> "", minor |-> "", patch |-> "",
            prerelease |-> "", buildmetadata |-> ""]

SemverRegexExec(version) ==
    LET plus == IndexOf(version, "+")
        main == IF plus = 0 THEN version ELSE SubSeq(version, 1, plus - 1)
        build == IF plus = 0 THEN "" ELSE SubSeq(version, plus + 1, Len(version))
        dash == IndexOf(main, "-")
        core == IF dash = 0 THEN main ELSE SubSeq(main, 1, dash - 1)
        pre == IF dash = 0 THEN "" ELSE SubSeq(main, dash + 1, Len(main))
        nums == Split(core, ".")
        pres == Split(pre, ".")
        builds == Split(build, ".")
    IN  IF /\ Len(nums) = 3
           /\ \A i \in 1..3 : IsNumericId(nums[i])
           /\ (dash # 0 => \A i \in 1..Len(pres) : IsPrereleaseId(pres[i]))
           /\ (plus # 0 => \A i \in 1..Len(builds) : IsBuildId(builds[i]))
        THEN [matched |-> TRUE, major |-> nums[1], minor |-> nums[2], patch |-> nums[3],
              prerelease |-> pre, buildmetadata |-> build]
        ELSE NoMatch

DigitVal(c) == CHOOSE d \in 0..9 : ToString(d) = c

\* value of a string of at most nine decimal digits
RECURSIVE ToNat(_)
ToNat(s) ==
    IF Len(s) = 0 THEN 0
    ELSE 10 * ToNat(SubSeq(s, 1, Len(s) - 1)) + DigitVal(charAt(s, Len(s)))

(***************************************************************************)
(* Number(digits) + 1 rendered by a template string.  A JavaScript number  *)
(* is an IEEE-754 double: integers up to 2^53 are exact, above 2^53 (and   *)
(* below 2^54) only the even ones exist and a value half-way between two   *)
(* of them goes to the multiple of four.  A number is kept as two limbs,   *)
(* hi * 10^8 + lo, for digit strings of at most sixteen digits.            *)
(***************************************************************************)
LimbBase == 100000000
\* 2^53 = 9007199254740992
TwoPow53Hi == 90071992
TwoPow53Lo == 54740992

LimbLess(a, b) == a.hi < b.hi \/ (a.hi = b.hi /\ a.lo < b.lo)

TwoPow53 == [hi |-> TwoPow53Hi, lo |-> TwoPow53Lo]

LimbAdd(a, k) ==
    IF a.lo + k >= LimbBase THEN [hi |-> a.hi + 1, lo |-> a.lo + k - LimbBase]
    ELSE IF a.lo + k < 0 THEN [hi |-> a.hi - 1, lo |-> a.lo + k + LimbBase]
    ELSE [hi |-> a.hi, lo |-> a.lo + k]

\* nearest double of an integer below 2^54, ties to the even significand
RoundToDouble(a) ==
    IF LimbLess(a, TwoPow53) \/ a = TwoPow53 \/ a.lo % 2 = 0 THEN a
    ELSE IF a.lo % 4 = 1 THEN LimbAdd(a, -1) ELSE LimbAdd(a, 1)

\* Number(s) for a string of one to sixteen decimal digits
ToNumber(s) ==
    RoundToDouble(IF Len(s) <= 8 THEN [hi |-> 0, lo |-> ToNat(s)]
                  ELSE [hi |-> ToNat(SubSeq(s, 1, Len(s) - 8)),
                        lo |-> ToNat(SubSeq(s, Len(s) - 7, Len(s)))])

RECURSIVE ZeroPad(_, _)
ZeroPad(s, width) == IF Len(s) >= width THEN s ELSE ZeroPad("0" \o s, width)

\* String(n) of a non-negative integral double
NumberToString(a) ==
    IF a.hi = 0 THEN ToString(a.lo) ELSE ToString(a.hi) \o ZeroPad(ToString(a.lo), 8)

\* `${Number(s) + 1}`
NumberPlusOne(s) == NumberToString(RoundToDouble(LimbAdd(ToNumber(s), 1)))

\* patchVersion (publish.ts:674)
patchVersion(version) ==
    LET match == SemverRegexExec(version)
    IN  IF match.matched
        THEN match.major \o "." \o match.minor \o "." \o NumberPlusOne(match.patch)
        ELSE Null

(***************************************************************************)
(* The semver package, as far as publish calls it: valid, gt and            *)
(* maxSatisfying over '*' with includePrerelease.                          *)
(***************************************************************************)
\* the characters of names and identifiers in ASCII order
AsciiOrder == "-./0123456789@ABCDEFGHIJKLMNOPQRSTUVWXYZabcdefghijklmnopqrstuvwxyz"

CharLess(a, b) == IndexOf(AsciiOrder, a) < IndexOf(AsciiOrder, b)

\* a < b for strings of identifier characters
RECURSIVE StringLess(_, _)
StringLess(a, b) ==
    IF Len(b) = 0 THEN FALSE
    ELSE IF Len(a) = 0 THEN TRUE
    ELSE IF charAt(a, 1) = charAt(b, 1)
         THEN StringLess(SubSeq(a, 2, Len(a)), SubSeq(b, 2, Len(b)))
         ELSE CharLess(charAt(a, 1), charAt(b, 1))

\* a leading "v" is accepted and dropped by the parser
StripV(v) == IF startsWith(v, "v") THEN SubSeq(v, 2, Len(v)) ELSE v

semverParse(v) == SemverRegexExec(StripV(v))

\* semver.valid
semverValid(v) == semverParse(v).matched

\* -1, 0, 1: numeric identifiers by value and below the others, the others as strings
compareIdentifiers(a, b) ==
    LET anum == AllIn(a, Digits)
        bnum == AllIn(b, Digits)
    IN  IF anum /\ bnum
        THEN (IF ToNat(a) < ToNat(b) THEN -1 ELSE IF ToNat(a) > ToNat(b) THEN 1 ELSE 0)
        ELSE IF anum THEN -1
        ELSE IF bnum THEN 1
        ELSE IF StringLess(a, b) THEN -1 ELSE IF StringLess(b, a) THEN 1 ELSE 0

RECURSIVE comparePre(_, _)
comparePre(a, b) ==
    IF a = <<>> /\ b = <<>> THEN 0
    ELSE IF a = <<>> THEN -1
    ELSE IF b = <<>> THEN 1
    ELSE IF compareIdentifiers(Head(a), Head(b)) # 0
         THEN compareIdentifiers(Head(a), Head(b))
         ELSE comparePre(Tail(a), Tail(b))

\* SemVer.compare of two parsed versions
semverCompare(a, b) ==
    LET main(i) == compareIdentifiers(<<a.major, a.minor, a.patch>>[i],
                                      <<b.major, b.minor, b.patch>>[i])
    IN  IF main(1) # 0 THEN main(1)
        ELSE IF main(2) # 0 THEN main(2)
        ELSE IF main(3) # 0 THEN main(3)
        ELSE IF a.prerelease = "" /\ b.prerelease = "" THEN 0
        ELSE IF a.prerelease = "" THEN 1
        ELSE IF b.prerelease = "" THEN -1
        ELSE comparePre(Split(a.prerelease, "."), Split(b.prerelease, "."))

\* semver.gt(a, b): "throws" when one side does not parse
semverGt(a, b) ==
    IF ~semverValid(a) \/ ~semverValid(b) THEN "throws"
    ELSE IF semverCompare(semverParse(a), semverParse(b)) > 0 THEN "true" ELSE "false"

\* semver.maxSatisfying(versions, '*', {loose, includePrerelease}): the greatest of
\* the versions that parse, null when none does
semverMaxSatisfying(versions) ==
    LET ok == SelectSeq(versions, LAMBDA v : semverValid(v))
        RECURSIVE best(_, _)
        best(max, rest) ==
            IF rest = <<>> THEN max
            ELSE IF semverCompare(semverParse(max), semverParse(Head(rest))) = -1
                 THEN best(Head(rest), Tail(rest))
                 ELSE best(max, Tail(rest))
    IN  IF ok = <<>> THEN Null ELSE best(Head(ok), Tail(ok))

(***************************************************************************)
(* getNewPrisma2Version (publish.ts:427)                                   *)
(***************************************************************************)
\* /alpha\.(\d+)/: the digits captured at the first match, "" when nothing matches
AlphaCapture(v) ==
    LET starts == {i \in 1..Len(v) :
                      /\ slice(v, i, i + 5) = "alpha."
                      /\ charAt(v, i + 6) \in Digits}
    IN  IF starts = {} THEN ""
        ELSE LET i == CHOOSE k \in starts : \A j \in starts : k <= j
                 ends == {e \in (i + 6)..Len(v) :
                             \A k \in (i + 6)..e : charAt(v, k) \in Digits}
             IN  SubSeq(v, i + 6, CHOOSE e \in ends : \A f \in ends : f <= e)

\* the alpha counters that survive .map(...).filter(v => v): no match gives null and
\* is dropped, and so is a counter of 0
AlphaVersions(versions) ==
    LET nonEmpty == SelectSeq(versions, LAMBDA v : Len(v) > 0)
        matched == SelectSeq(nonEmpty, LAMBDA v : AlphaCapture(v) # "")
        truthy == SelectSeq(matched, LAMBDA v : ToNat(AlphaCapture(v)) # 0)
    IN  [i \in 1..Len(truthy) |-> ToNat(AlphaCapture(truthy[i]))]

\* Math.max(...alphaVersions) + 1 in the template string; Math.max() is -Infinity
getNewPrisma2Version(localPrisma2, localPhoton, remotePrisma2, remotePhoton) ==
    LET alphaVersions ==
            AlphaVersions(<<localPrisma2, localPhoton, remotePrisma2, remotePhoton>>)
    IN  IF alphaVersions = <<>> THEN "2.0.0-alpha.-Infinity"
        ELSE LET maxAlpha == CHOOSE m \in Range(alphaVersions) :
                                \A k \in Range(alphaVersions) : k <= m
             IN  "2.0.0-alpha." \o ToString(maxAlpha + 1)

(***************************************************************************)
(* newVersion / patch (publish.ts:669-705).  npmVersion is what            *)
(* `npm info <name> version` answered; it is consulted on Buildkite only.  *)
(***************************************************************************)
patch(pkg, buildkite, npmVersion) ==
    IF ~buildkite THEN patchVersion(pkg.version)
    ELSE patchVersion(semverMaxSatisfying(<<pkg.version, npmVersion>>))

\* a version rule that patches every package, the anchors too
newVersion_PatchAll(pkg, prisma2Version, buildkite, npmVersion) ==
    patch(pkg, buildkite, npmVersion)

newVersion(pkg, prisma2Version, buildkite, npmVersion) ==
    IF pkg.name \in {Prisma2, Photon} THEN prisma2Version
    ELSE patch(pkg, buildkite, npmVersion)

(***************************************************************************)
(* getCommitMessages (publish.ts:393): the anchor packages first, the      *)
(* others by name, then those whose path starts with dir.  `versions`      *)
(* gives p.version of every package of changedPackages.                    *)
(***************************************************************************)
RECURSIVE SortByName(_)
SortByName(S) ==
    IF S = {} THEN <<>>
    ELSE LET least == CHOOSE a \in S : \A b \in S \ {a} : StringLess(a, b)
         IN  <<least>> \o SortByName(S \ {least})

getCommitMessages(dir, packages, names) ==
    LET sorted == SortByName(Range(names) \cap {Photon, Prisma2})
                  \o SortByName(Range(names) \ {Photon, Prisma2})
        inDir == SelectSeq(sorted, LAMBDA n : startsWith(packages[n].path, dir))
    IN  [i \in 1..Len(inDir) |-> inDir[i] \o "@" \o packages[inDir[i]].version]

(***************************************************************************)
(* The run: publish() (publish.ts:458-633) with getLatestChanges,          *)
(* testPackages and publishPackages, one action per step or external       *)
(* command.                                                                *)
(***************************************************************************)
VARIABLES
    args,            \* parsed flags read more than once: publish, dryRun, release, testAll
    env,             \* process.env: BUILDKITE, GITHUB_TOKEN, UPDATE_STUDIO
    registry,        \* the version npm reports under the alpha tag, by anchor package
    pc,              \* position in publish()
    rawPackages,     \* the manifests on disk, by package name
    packages,        \* the graph built by getPackageDependencies
    frame,           \* getLatestChanges while it runs: [allRepos, repo, dirty, commits,
                     \* unsaved: what `git status --porcelain` answered, by repository]
    changes,         \* the changed paths returned by getLatestChanges
    prisma2Version,  \* the shared version of the run
    changedPackages, \* [order, newVersion]: the affected set in insertion order
    publishOrder,    \* the batches returned by getPublishOrder
    cursor,          \* index into the flattened order or into the repositories
    pkgVersion,      \* newVersion of the package being published (publish.ts:789)
    issued,          \* the commands handed to run() so far (see Logged)
    last,            \* the commands issued by the latest step, in full
    caught,          \* repositories whose commit/push block threw and was caught
    exit             \* [status, error]: "running", "ok" (status 0) or "failed" (exit 1)

vars == <<args, env, registry, pc, rawPackages, packages, frame, changes, prisma2Version,
          changedPackages, publishOrder, cursor, pkgVersion, issued, last, caught, exit>>

Repos == <<"lift", "photonjs", "prisma2">>

\* a command handed to run() or runResult(): result is "logged" when run() was called
\* with dry = true, else "ok" or "failed"
Cmd(cmd, target, arg, result) == [cmd |-> cmd, target |-> target, arg |-> arg, result |-> result]

\* the commands run once per package
PackageCmds == {"pnpm run test", "pnpm update", "pnpm version", "pnpm publish"}

\* the commands that change a manifest, the registry or a repository
MutatingCmds == {"pnpm update", "pnpm update studio", "pnpm version", "pnpm publish",
                 "git pull", "git commit", "git remote add", "git push"}

\* the commands handed to runResult(): they only read
QueryCmds == {"npm info", "git status --porcelain", "git status --branch", "git log",
              "git diff-tree", "git remote"}

Executed(c) == c.result \in {"ok", "failed", "ran"}

\* `issued` keeps the commands handed to run(): with the package, version, tag and
\* result when they are run per package, else the command and whether it was executed
\* ("ran") or logged only.  The queries, and the directory, arguments and result of
\* every command, are in `last` while they are the latest
Logged(c) ==
    IF c.cmd \in PackageCmds THEN c
    ELSE [c EXCEPT !.target = "", !.arg = "",
                   !.result = IF c.result = "logged" THEN "logged" ELSE "ran"]

Issue(cmds) ==
    /\ issued' = issued \cup {Logged(c) : c \in {d \in cmds : d.cmd \notin QueryCmds}}
    /\ last' = cmds

\* a step that issues no command
Silent ==
    /\ issued' = issued
    /\ last' = {}

\* the promise of publish() rejects: the handler at publish.ts:872 exits with status 1
Fail(message) ==
    /\ pc' = "exit"
    /\ exit' = [status |-> "failed", error |-> message]

\* publish() returns
Finish ==
    /\ pc' = "exit"
    /\ exit' = [status |-> "ok", error |-> ""]

\* outcomes of run(cwd, cmd, dry) (publish.ts:188): logged only, or executed
RunResults(dry) == IF dry THEN {"logged"} ELSE {"ok", "failed"}

\* outcomes of runResult(cwd, cmd) (publish.ts:166)
QueryResults == {"ok", "failed"}

(***************************************************************************)
(* Inputs: the workspaces, flags, environments and answers of the          *)
(* external commands the runs are checked over.                            *)
(***************************************************************************)
\* subsets of S with at most k elements
RECURSIVE KSubsets(_, _)
KSubsets(S, k) ==
    IF k = 0 THEN {{}}
    ELSE LET smaller == KSubsets(S, k - 1)
         IN  smaller \cup {T \cup {e} : T \in smaller, e \in S}

\* one entry of dependencies ("dep") or devDependencies ("dev") of the manifest of `from`
Slot(from, to, kind) == [from |-> from, to |-> to, kind |-> kind]

DefaultVersions == [n \in Names |-> IF n \in {Prisma2, Photon} THEN "2.0.0-alpha.3" ELSE "1.2.3"]

DefaultScripts == [n \in Names |-> "test"]

\* the manifests of a workspace whose declared dependencies are `slots`; scripts is
\* "test" (a test script), "noTest" (scripts without test) or "none" (no scripts)
RawWorkspace(slots, version, scripts) ==
    [n \in Names |->
        [path |-> PackagePath(n),
         version |-> version[n],
         scripts |-> scripts[n],
         dependencies |-> SelectSeq(DepKeys, LAMBDA k : Slot(n, k, "dep") \in slots),
         devDependencies |-> SelectSeq(DepKeys, LAMBDA k : Slot(n, k, "dev") \in slots)]]

\* the workspaces of the runs: no dependencies; the usual layout; a cycle of three; a
\* cycle of two; the usual layout where lift has a malformed version and no test
\* script and sdk has no version and no scripts
NoDeps == {}
UsualLayout == {Slot(Lift, Photon, "dep"), Slot(Prisma2, Photon, "dep"),
                Slot(Prisma2, Lift, "dep"), Slot(Prisma2, Sdk, "dev"),
                Slot(Prisma2, "@prisma/studio-transports", "dep")}
ThreeCycle == {Slot(Photon, Lift, "dep"), Slot(Lift, Sdk, "dep"), Slot(Sdk, Photon, "dev")}
TwoCycle == {Slot(Lift, Photon, "dep"), Slot(Photon, Lift, "dev")}

RunWorkspaces ==
    {RawWorkspace(slots, DefaultVersions, DefaultScripts) :
        slots \in {NoDeps, UsualLayout, ThreeCycle, TwoCycle}}
    \cup {RawWorkspace(UsualLayout,
                       [DefaultVersions EXCEPT ![Lift] = "v1.2", ![Sdk] = Undefined],
                       [DefaultScripts EXCEPT ![Lift] = "noTest", ![Sdk] = "none"])}

\* the environments of the runs: a local run, a local run that updates studio, a
\* Buildkite run with and without the token
RunEnvs ==
    {[BUILDKITE |-> FALSE, GITHUB_TOKEN |-> FALSE, UPDATE_STUDIO |-> FALSE],
     [BUILDKITE |-> FALSE, GITHUB_TOKEN |-> FALSE, UPDATE_STUDIO |-> TRUE],
     [BUILDKITE |-> TRUE, GITHUB_TOKEN |-> TRUE, UPDATE_STUDIO |-> FALSE],
     [BUILDKITE |-> TRUE, GITHUB_TOKEN |-> FALSE, UPDATE_STUDIO |-> FALSE]}

\* --release values: none, a good one, one not above the published version, one
\* outside the naming scheme, one that is no version
ReleaseChoices == {"", "2.0.0-preview019", "2.0.0-preview017", "2.1.0", "preview019"}
\* values of BUILDKITE_TAG
TagChoices == {"", "2.0.0-preview019"}
\* answers of `npm info prisma2 version`
PublishedPrisma2 == {"2.0.0-preview018"}
\* answers of `npm info <anchor>@alpha version`
RemoteAlphaChoices == {"2.0.0-alpha.7"}
\* answers of `npm info <name> version` for the other packages
NpmVersions == {"1.2.3", "1.3.0"}
\* values of --repo
RepoChoices == {"", "lift", "photon"}
\* answers of `git status --porcelain`, trimmed
UnsavedChoices == {"", "M cli/prisma2/package.json", "M src/index.ts"}
\* answers of `git status --porcelain` in the commit stage, trimmed
UncommittedChoices == {"", "M package.json"}
\* the paths reported by `git diff-tree` for the latest commit of a repository
RepoChanges(repo) ==
    CASE repo = "lift" -> {{}, {"src/index.ts"}}
      [] repo = "photonjs" -> {{}, {"README.md"}}
      [] repo = "prisma2" -> {{}, {"cli/sdk/src/index.ts"}}
      [] OTHER -> {{}}

NoFrame == [allRepos |-> FALSE, repo |-> "", dirty |-> FALSE, commits |-> {},
            unsaved |-> <<>>]

Unbuilt == [order |-> <<>>, newVersion |-> <<>>]

InitRun(raw, a, e) ==
    /\ rawPackages = raw
    /\ args = a
    /\ env = e
    /\ registry \in [Anchors -> RemoteAlphaChoices]
    /\ packages = <<>>
    /\ frame = NoFrame
    /\ changes = {}
    /\ prisma2Version = ""
    /\ changedPackages = Unbuilt
    /\ publishOrder = <<>>
    /\ cursor = 0
    /\ pkgVersion = ""
    /\ issued = {}
    /\ last = {}
    /\ caught = {}
    /\ exit = [status |-> "running", error |-> ""]

\* the flags of the runs: none, --test-all, --publish with and without --test-all,
\* --dry-run, --dry-run with --publish, and --release with each of its values
RunArgs ==
    {[publish |-> p, dryRun |-> FALSE, release |-> "", testAll |-> t] :
        p \in BOOLEAN, t \in BOOLEAN}
    \cup {[publish |-> p, dryRun |-> TRUE, release |-> "", testAll |-> FALSE] :
             p \in BOOLEAN}
    \cup {[publish |-> FALSE, dryRun |-> FALSE, release |-> r, testAll |-> FALSE] :
             r \in ReleaseChoices \ {""}}
    \cup {[publish |-> FALSE, dryRun |-> TRUE, release |-> "2.0.0-preview019",
           testAll |-> FALSE]}

Init ==
    /\ pc = "start"
    /\ \E raw \in RunWorkspaces, a \in RunArgs, e \in RunEnvs : InitRun(raw, a, e)

(***************************************************************************)
(* publish(): pre-flight (publish.ts:472-547)                              *)
(***************************************************************************)
graphVars == <<rawPackages, packages, frame, changes, prisma2Version, changedPackages,
               publishOrder>>

\* publish.ts:472-478
CheckGithubToken ==
    /\ pc = "start"
    /\ \E publishBuild \in BOOLEAN :
          IF env.BUILDKITE /\ publishBuild /\ ~env.GITHUB_TOKEN
          THEN Fail("Missing env var GITHUB_TOKEN")
          ELSE pc' = "mode" /\ UNCHANGED exit
    /\ Silent
    /\ UNCHANGED <<args, env, registry, graphVars, cursor, pkgVersion, caught>>

\* publish.ts:480, 489: --pull and --status bypass the rest
SelectMode ==
    /\ pc = "mode"
    /\ \E pull \in BOOLEAN, status \in BOOLEAN :
          IF pull THEN pc' = "pull" /\ cursor' = 1
          ELSE IF status THEN pc' = "status" /\ cursor' = 1
          ELSE pc' = "flags" /\ UNCHANGED cursor
    /\ Silent
    /\ UNCHANGED <<args, env, registry, graphVars, pkgVersion, caught, exit>>

\* publish.ts:481-486 (cmd "git pull") and 490-495 (cmd "git status"): run() without dry
UtilityRepo(at, cmd) ==
    /\ pc = at
    /\ \E r \in RunResults(FALSE) :
          /\ Issue({Cmd(cmd, Repos[cursor], "", r)})
          /\ IF r = "failed" THEN Fail("Error running " \o cmd) /\ UNCHANGED cursor
             ELSE IF cursor = Len(Repos) THEN Finish /\ UNCHANGED cursor
             ELSE cursor' = cursor + 1 /\ UNCHANGED <<pc, exit>>
    /\ UNCHANGED <<args, env, registry, graphVars, pkgVersion, caught>>

PullRepo == UtilityRepo("pull", "git pull")

StatusRepo == UtilityRepo("status", "git status")

\* publish.ts:498-515
CheckFlags ==
    /\ pc = "flags"
    /\ IF args.dryRun /\ args.publish
       THEN Fail("Can't use --dry-run and --publish at the same time") /\ UNCHANGED args
       ELSE \E tag \in TagChoices :
               IF tag # "" /\ args.release # ""
               THEN Fail("Can't provide env var BUILDKITE_TAG and --release at the same time")
                    /\ UNCHANGED args
               ELSE /\ args' = IF tag # "" THEN [args EXCEPT !.release = tag] ELSE args
                    /\ pc' = "release"
                    /\ UNCHANGED exit
    /\ Silent
    /\ UNCHANGED <<env, registry, graphVars, cursor, pkgVersion, caught>>

\* a validation that does not compare the release with the published version
ValidateRelease_NoGreaterCheck ==
    /\ pc = "release"
    /\ IF args.release = ""
       THEN pc' = "load" /\ Silent /\ UNCHANGED <<args, exit>>
       ELSE IF ~semverValid(args.release)
       THEN Fail("is not a valid semver version") /\ Silent /\ UNCHANGED args
       ELSE \E q \in QueryResults :
               /\ Issue({Cmd("npm info", Prisma2, "", q)})
               /\ IF q = "failed"
                  THEN Fail("Error running npm info") /\ UNCHANGED args
                  ELSE IF ~includes(args.release, "preview0")
                  THEN Fail("does not follow the preview naming scheme") /\ UNCHANGED args
                  ELSE /\ args' = [args EXCEPT !.publish = TRUE]
                       /\ pc' = "load"
                       /\ UNCHANGED exit
    /\ UNCHANGED <<env, registry, graphVars, cursor, pkgVersion, caught>>

\* publish.ts:517-547
ValidateRelease ==
    /\ pc = "release"
    /\ IF args.release = ""
       THEN pc' = "load" /\ Silent /\ UNCHANGED <<args, exit>>
       ELSE IF ~semverValid(args.release)
       THEN Fail("is not a valid semver version") /\ Silent /\ UNCHANGED args
       ELSE \E q \in QueryResults, currentVersion \in PublishedPrisma2 :
               /\ Issue({Cmd("npm info", Prisma2, "", q)})
               /\ IF q = "failed"
                  THEN Fail("Error running npm info") /\ UNCHANGED args
                  ELSE IF semverGt(args.release, currentVersion) = "throws"
                  THEN Fail("TypeError: Invalid Version") /\ UNCHANGED args
                  ELSE IF semverGt(args.release, currentVersion) = "false"
                  THEN Fail("is not greater than the current semver version")
                       /\ UNCHANGED args
                  ELSE IF ~includes(args.release, "preview0")
                  THEN Fail("does not follow the preview naming scheme") /\ UNCHANGED args
                  ELSE /\ args' = [args EXCEPT !.publish = TRUE]
                       /\ pc' = "load"
                       /\ UNCHANGED exit
    /\ UNCHANGED <<env, registry, graphVars, cursor, pkgVersion, caught>>

(***************************************************************************)
(* publish(): the graph, the change set, the versions, the order           *)
(* (publish.ts:549-587)                                                    *)
(***************************************************************************)
\* publish.ts:549-554
LoadPackages ==
    /\ pc = "load"
    /\ packages' = getPackageDependencies(rawPackages)
    /\ IF Len(getCircularDependencies(packages')) > 0
       THEN Fail("Oops, there are circular dependencies")
       ELSE pc' = "changes" /\ UNCHANGED exit
    /\ Silent
    /\ UNCHANGED <<args, env, registry, rawPackages, frame, changes, prisma2Version,
                   changedPackages, publishOrder, cursor, pkgVersion, caught>>

\* the array literal of publish.ts:25 is an object and so always truthy
KnownRepos == TRUE

\* the guard of publish.ts:25: repo && !['prisma2', 'lift', 'photonjs']
RepoGuardThrows(repo) == repo # "" /\ ~KnownRepos

\* publish.ts:556-561 calls getLatestChanges; publish.ts:25-29 is its first statement
EnterGetLatestChanges ==
    /\ pc = "changes"
    /\ \E allRepos \in BOOLEAN, repo \in RepoChoices, dirtyFlag \in BOOLEAN :
          IF RepoGuardThrows(repo)
          THEN Fail("Provided repo does not exist") /\ UNCHANGED frame
          ELSE /\ frame' = [allRepos |-> allRepos, repo |-> repo, commits |-> {},
                            unsaved |-> <<>>,
                            dirty |-> dirtyFlag \/ (~args.publish /\ args.release = ""
                                                    /\ ~args.dryRun)]
               /\ pc' = "ensure"
               /\ UNCHANGED exit
    /\ Silent
    /\ UNCHANGED <<args, env, registry, rawPackages, packages, changes, prisma2Version,
                   changedPackages, publishOrder, cursor, pkgVersion, caught>>

\* a guard that lets every status output pass
ensureChangedAreSaved_LetAllPass(dir, unsavedChanges) == "returns"

\* ensureChangedAreSaved (publish.ts:99): does it throw for the trimmed status output
ensureChangedAreSaved(dir, unsavedChanges) ==
    IF unsavedChanges # ""
       /\ ~(dir = "prisma2" /\ unsavedChanges = "M cli/prisma2/package.json")
    THEN "throws" ELSE "returns"

\* the commands of one Promise.all group, at most one of them failing; a command
\* run in a directory that does not exist fails
Queries(cmd, targets, failing) ==
    {Cmd(cmd, t, "", IF t = failing \/ t \notin Range(Repos) THEN "failed" ELSE "ok") :
        t \in targets}

\* publish.ts:31-37
EnsureSaved ==
    /\ pc = "ensure"
    /\ IF frame.dirty
       THEN pc' = "commits" /\ Silent /\ UNCHANGED <<frame, exit>>
       ELSE \E failing \in Range(Repos) \cup {"none"},
               unsaved \in [Range(Repos) -> UnsavedChoices] :
               LET qs == Queries("git status --porcelain", Range(Repos), failing)
               IN  /\ Issue(qs)
                   /\ IF \E q \in qs : q.result = "failed"
                      THEN Fail("Error running git status --porcelain")
                           /\ frame' = NoFrame
                      ELSE IF \E r \in Range(Repos) :
                                 ensureChangedAreSaved(r, unsaved[r]) = "throws"
                      THEN /\ Fail("has unsaved changes")
                           /\ frame' = [NoFrame EXCEPT !.unsaved = unsaved]
                      ELSE /\ pc' = "commits"
                           /\ frame' = [frame EXCEPT !.unsaved = unsaved]
                           /\ UNCHANGED exit
    /\ UNCHANGED <<args, env, registry, rawPackages, packages, changes, prisma2Version,
                   changedPackages, publishOrder, cursor, pkgVersion, caught>>

\* publish.ts:39-59: the latest commit of the named repository or of each of the
\* three, newest first; all of them or the newest one are diffed
GetCommits ==
    /\ pc = "commits"
    /\ LET queried == IF frame.repo # "" THEN {frame.repo} ELSE Range(Repos)
       IN  \E failing \in queried \cup {"none"}, newest \in queried :
              LET qs == Queries("git log", queried, failing)
              IN  /\ Issue(qs)
                  /\ IF \E q \in qs : q.result = "failed"
                     THEN Fail("Error running git log") /\ frame' = NoFrame
                     ELSE /\ frame' = [frame EXCEPT
                                         !.commits = IF frame.allRepos THEN queried
                                                     ELSE {newest}]
                          /\ pc' = "diff"
                          /\ UNCHANGED exit
    /\ UNCHANGED <<args, env, registry, rawPackages, packages, changes, prisma2Version,
                   changedPackages, publishOrder, cursor, pkgVersion, caught>>

\* getChangesFromCommit (publish.ts:62): the paths of one commit, joined to its directory
getChangesFromCommit(dir, names) == {dir \o "/" \o c : c \in names}

\* a diff that returns the paths of the commits even when a commit has none
DiffCommits_AllowEmpty ==
    /\ pc = "diff"
    /\ \E failing \in frame.commits \cup {"none"},
          diff \in [frame.commits -> UNION {RepoChanges(r) : r \in frame.commits}] :
          LET qs == Queries("git diff-tree", frame.commits, failing)
          IN  /\ \A r \in frame.commits : diff[r] \in RepoChanges(r)
              /\ Issue(qs)
              /\ frame' = NoFrame
              /\ IF \E q \in qs : q.result = "failed"
                 THEN Fail("Error running git diff-tree") /\ UNCHANGED changes
                 ELSE /\ changes' = UNION {getChangesFromCommit(r, diff[r]) :
                                              r \in frame.commits}
                      /\ pc' = "version"
                      /\ UNCHANGED exit
    /\ UNCHANGED <<args, env, registry, rawPackages, packages, prisma2Version, changedPackages,
                   publishOrder, cursor, pkgVersion, caught>>

\* publish.ts:51-59 with getChangesFromCommit; a commit without changes throws
DiffCommits ==
    /\ pc = "diff"
    /\ \E failing \in frame.commits \cup {"none"},
          diff \in [frame.commits -> UNION {RepoChanges(r) : r \in frame.commits}] :
          LET qs == Queries("git diff-tree", frame.commits, failing)
          IN  /\ \A r \in frame.commits : diff[r] \in RepoChanges(r)
              /\ Issue(qs)
              /\ frame' = NoFrame
              /\ IF \E q \in qs : q.result = "failed"
                 THEN Fail("Error running git diff-tree") /\ UNCHANGED changes
                 ELSE IF \E r \in frame.commits : diff[r] = {}
                 THEN Fail("No changes detected. This must not happen!")
                      /\ UNCHANGED changes
                 ELSE /\ changes' = UNION {getChangesFromCommit(r, diff[r]) :
                                              r \in frame.commits}
                      /\ pc' = "version"
                      /\ UNCHANGED exit
    /\ UNCHANGED <<args, env, registry, rawPackages, packages, prisma2Version, changedPackages,
                   publishOrder, cursor, pkgVersion, caught>>

\* publish.ts:567-568 with getNewPrisma2Version (publish.ts:427-433): a version that
\* is undefined has no trim method
ComputeVersion ==
    /\ pc = "version"
    /\ IF args.release # ""
       THEN /\ prisma2Version' = args.release
            /\ pc' = "affected"
            /\ Silent
            /\ UNCHANGED exit
       ELSE \E failing \in Anchors \cup {"none"} :
               /\ Issue({Cmd("npm info", a, "alpha",
                             IF a = failing THEN "failed" ELSE "ok") : a \in Anchors})
               /\ IF failing # "none"
                  THEN Fail("Error running npm info") /\ UNCHANGED prisma2Version
                  ELSE IF Undefined \in {packages[Prisma2].version,
                                         packages[Photon].version}
                  THEN Fail("TypeError: Cannot read property 'trim' of undefined")
                       /\ UNCHANGED prisma2Version
                  ELSE /\ prisma2Version' =
                             getNewPrisma2Version(packages[Prisma2].version,
                                                  packages[Photon].version,
                                                  registry[Prisma2], registry[Photon])
                       /\ pc' = "affected"
                       /\ UNCHANGED exit
    /\ UNCHANGED <<args, env, registry, rawPackages, packages, frame, changes, changedPackages,
                   publishOrder, cursor, pkgVersion, caught>>

\* the packages whose new version comes from patch(), in order
Patched(names) == SelectSeq(names, LAMBDA n : n \notin {Prisma2, Photon})

\* the `npm info <name> version` queries of patch(), made on Buildkite only, one
\* package after the other up to the first that fails (failing = 0: none fails)
PatchQueries(names, failing) ==
    IF env.BUILDKITE
    THEN {Cmd("npm info", Patched(names)[i], "", IF i = failing THEN "failed" ELSE "ok") :
             i \in {j \in 1..Len(Patched(names)) : failing = 0 \/ j <= failing}}
    ELSE {}

\* publish.ts:570-575 with getPackagesAffectedByChange (publish.ts:336-391)
ComputeAffected ==
    /\ pc = "affected"
    /\ LET names == AffectedNames(packages, changes,
                                  args.release # "" \/ env.UPDATE_STUDIO)
       IN  \E failing \in (IF env.BUILDKITE THEN 0..Len(Patched(names)) ELSE {0}),
              npmVersion \in NpmVersions :
              /\ IF PatchQueries(names, failing) = {} THEN Silent
                 ELSE Issue(PatchQueries(names, failing))
              /\ IF failing # 0
                 THEN Fail("Error running npm info") /\ UNCHANGED changedPackages
                 ELSE /\ changedPackages' =
                            [order |-> names,
                             newVersion |->
                                [n \in Range(names) |->
                                    newVersion(packages[n], prisma2Version,
                                               env.BUILDKITE, npmVersion)]]
                      /\ pc' = "order"
                      /\ UNCHANGED exit
    /\ UNCHANGED <<args, env, registry, rawPackages, packages, frame, changes, prisma2Version,
                   publishOrder, cursor, pkgVersion, caught>>

\* a call of getPublishOrder whose error is dropped: the run goes on
ComputeOrder_IgnoreError ==
    /\ pc = "order"
    /\ publishOrder' = getPublishOrder(packages,
                                       IF args.testAll THEN ValuesOf(packages)
                                       ELSE changedPackages.order).batches
    /\ pc' = "testgate"
    /\ Silent
    /\ UNCHANGED <<args, env, registry, rawPackages, packages, frame, changes, prisma2Version,
                   changedPackages, cursor, pkgVersion, caught, exit>>

\* publish.ts:585-587
ComputeOrder ==
    /\ pc = "order"
    /\ LET order == getPublishOrder(packages,
                                    IF args.testAll THEN ValuesOf(packages)
                                    ELSE changedPackages.order)
       IN  IF order.error # "none"
           THEN Fail(order.error) /\ UNCHANGED publishOrder
           ELSE /\ publishOrder' = order.batches
                /\ pc' = "testgate"
                /\ UNCHANGED exit
    /\ Silent
    /\ UNCHANGED <<args, env, registry, rawPackages, packages, frame, changes, prisma2Version,
                   changedPackages, cursor, pkgVersion, caught>>

(***************************************************************************)
(* The test stage (publish.ts:589-603, testPackages 640-658)               *)
(***************************************************************************)
\* flatten(publishOrder) (publish.ts:644); publishPackages walks the same sequence
Order == flatten(publishOrder)

\* a gate that runs the update of studio before the tests
TestGate_StudioFirst ==
    /\ pc = "testgate"
    /\ \E testChanged \in BOOLEAN :
          IF ~args.dryRun
             /\ (~args.publish \/ testChanged \/ args.release # "" \/ args.testAll)
          THEN pc' = "test" /\ cursor' = 1
          ELSE pc' = "publishgate" /\ UNCHANGED cursor
    /\ IF env.UPDATE_STUDIO /\ (args.publish \/ args.dryRun)
       THEN Issue({Cmd("pnpm update studio", ".", "", "ok")})
       ELSE Silent
    /\ UNCHANGED <<args, env, registry, graphVars, pkgVersion, caught, exit>>

\* publish.ts:589-595
TestGate ==
    /\ pc = "testgate"
    /\ \E testChanged \in BOOLEAN :
          IF ~args.dryRun
             /\ (~args.publish \/ testChanged \/ args.release # "" \/ args.testAll)
          THEN pc' = "test" /\ cursor' = 1
          ELSE pc' = "publishgate" /\ UNCHANGED cursor
    /\ Silent
    /\ UNCHANGED <<args, env, registry, graphVars, pkgVersion, caught, exit>>

\* a test loop that goes on to the next package after a failed test
TestPackage_ContinueOnFailure ==
    /\ pc = "test"
    /\ IF cursor > Len(Order)
       THEN pc' = "publishgate" /\ Silent /\ UNCHANGED <<cursor, exit>>
       ELSE LET pkg == packages[Order[cursor]]
            IN  IF pkg.scripts = "none"
                THEN Fail("TypeError: Cannot read property 'test' of undefined")
                     /\ Silent /\ UNCHANGED cursor
                ELSE IF pkg.scripts = "test"
                THEN \E r \in RunResults(FALSE) :
                        /\ Issue({Cmd("pnpm run test", pkg.name, "", r)})
                        /\ cursor' = cursor + 1
                        /\ UNCHANGED <<pc, exit>>
                ELSE cursor' = cursor + 1 /\ Silent /\ UNCHANGED <<pc, exit>>
    /\ UNCHANGED <<args, env, registry, graphVars, pkgVersion, caught>>

\* one iteration of the loop of testPackages (publish.ts:647-657); a manifest without
\* a scripts section has no `test` to read
TestPackage ==
    /\ pc = "test"
    /\ IF cursor > Len(Order)
       THEN pc' = "publishgate" /\ Silent /\ UNCHANGED <<cursor, exit>>
       ELSE LET pkg == packages[Order[cursor]]
            IN  IF pkg.scripts = "none"
                THEN Fail("TypeError: Cannot read property 'test' of undefined")
                     /\ Silent /\ UNCHANGED cursor
                ELSE IF pkg.scripts = "test"
                THEN \E r \in RunResults(FALSE) :
                        /\ Issue({Cmd("pnpm run test", pkg.name, "", r)})
                        /\ IF r = "failed"
                           THEN Fail("Error running pnpm run test") /\ UNCHANGED cursor
                           ELSE cursor' = cursor + 1 /\ UNCHANGED <<pc, exit>>
                ELSE cursor' = cursor + 1 /\ Silent /\ UNCHANGED <<pc, exit>>
    /\ UNCHANGED <<args, env, registry, graphVars, pkgVersion, caught>>

(***************************************************************************)
(* The publish stage (publish.ts:605-632, publishPackages 776-813)         *)
(***************************************************************************)
\* publish.ts:605-610
PublishGate ==
    /\ pc = "publishgate"
    /\ IF args.publish \/ args.dryRun
       THEN /\ pc' = IF env.UPDATE_STUDIO THEN "studio" ELSE "package"
            /\ cursor' = 1
            /\ UNCHANGED exit
       ELSE Finish /\ UNCHANGED cursor
    /\ Silent
    /\ UNCHANGED <<args, env, registry, graphVars, pkgVersion, caught>>

\* publish.ts:610-622: the update of studio is run without the dry flag
UpdateStudio ==
    /\ pc = "studio"
    /\ \E q \in QueryResults, r \in RunResults(FALSE) :
          LET query == Cmd("npm info", "@prisma/studio-transport", "", q)
          IN  IF q = "failed"
              THEN Issue({query}) /\ Fail("Error running npm info")
              ELSE /\ Issue({query, Cmd("pnpm update studio", ".", "", r)})
                   /\ IF r = "failed" THEN Fail("Error running pnpm update")
                      ELSE pc' = "package" /\ UNCHANGED exit
    /\ UNCHANGED <<args, env, registry, graphVars, cursor, pkgVersion, caught>>

\* a tag chosen from the version alone, for anchors and other packages alike
PublishTag_AnyPackage(pkgName) ==
    IF includes(prisma2Version, "alpha") THEN "alpha" ELSE "latest"

\* publish.ts:784-788
PublishTag(pkgName) ==
    IF includes(prisma2Version, "alpha") /\ pkgName \in {Prisma2, Photon}
    THEN "alpha" ELSE "latest"

\* publish.ts:797
PrismaDeps(pkgName) == packages[pkgName].uses \o packages[pkgName].usesDev

\* publish.ts:776-789: the next package of the order and its new version
StartPackage ==
    /\ pc = "package"
    /\ IF cursor > Len(Order)
       THEN pc' = "repo" /\ cursor' = 1 /\ Silent /\ UNCHANGED <<pkgVersion, exit>>
       ELSE LET pkgName == Order[cursor]
                asks == env.BUILDKITE /\ pkgName \notin {Prisma2, Photon}
            IN  \E q \in (IF asks THEN QueryResults ELSE {"ok"}),
                   npm \in (IF asks THEN NpmVersions ELSE {""}) :
                   /\ IF asks THEN Issue({Cmd("npm info", pkgName, "", q)}) ELSE Silent
                   /\ IF q = "failed"
                      THEN Fail("Error running npm info") /\ UNCHANGED pkgVersion
                      ELSE /\ pkgVersion' = newVersion(packages[pkgName], prisma2Version,
                                                       env.BUILDKITE, npm)
                           /\ pc' = IF Len(PrismaDeps(pkgName)) > 0 THEN "pins"
                                    ELSE "writeversion"
                           /\ UNCHANGED exit
                   /\ UNCHANGED cursor
    /\ UNCHANGED <<args, env, registry, graphVars, caught>>

\* a step of the publish stage that goes on after a failed command
PublishStep_ContinueOnFailure(at, cmd, arg, next, advance) ==
    /\ pc = at
    /\ \E r \in RunResults(args.dryRun) :
          /\ Issue({Cmd(cmd, Order[cursor], arg, r)})
          /\ pc' = next /\ cursor' = cursor + advance /\ UNCHANGED exit
    /\ UNCHANGED <<args, env, registry, graphVars, pkgVersion, caught>>

\* one run(pkgDir, cmd, dryRun) of the publish stage
PublishStep(at, cmd, arg, next, advance) ==
    /\ pc = at
    /\ \E r \in RunResults(args.dryRun) :
          /\ Issue({Cmd(cmd, Order[cursor], arg, r)})
          /\ IF r = "failed"
             THEN Fail("Error running " \o cmd) /\ UNCHANGED cursor
             ELSE pc' = next /\ cursor' = cursor + advance /\ UNCHANGED exit
    /\ UNCHANGED <<args, env, registry, graphVars, pkgVersion, caught>>

\* an update of the pins that is followed by the publish, without the version write
UpdatePins_SkipVersion == PublishStep("pins", "pnpm update", "", "publish", 0)

\* publish.ts:798-804
UpdatePins == PublishStep("pins", "pnpm update", "", "writeversion", 0)

\* publish.ts:806-810
WriteVersion == PublishStep("writeversion", "pnpm version", pkgVersion, "publish", 0)

\* publish.ts:811
PublishPackage ==
    PublishStep("publish", "pnpm publish",
                IF pc = "publish" THEN PublishTag(Order[cursor]) ELSE "", "package", 1)

(***************************************************************************)
(* The commit / push stage (publishPackages 815-857, push 142-159)         *)
(***************************************************************************)
RECURSIVE JoinMessages(_)
JoinMessages(messages) ==
    IF messages = <<>> THEN ""
    ELSE IF Len(messages) = 1 THEN Head(messages)
    ELSE Head(messages) \o " " \o JoinMessages(Tail(messages))

\* the messages of the repository the loop is at (publish.ts:818)
Messages(repo) == getCommitMessages(repo, packages, changedPackages.order)

NextRepo == pc' = "repo" /\ cursor' = cursor + 1

\* the catch of publish.ts:851-854
Catch == caught' = caught \cup {Repos[cursor]} /\ NextRepo

\* publish.ts:817-821: the pull is issued before the try and without the dry flag
BeginRepo ==
    /\ pc = "repo"
    /\ IF cursor > Len(Repos)
       THEN Finish /\ Silent /\ UNCHANGED cursor
       ELSE IF Len(Messages(Repos[cursor])) = 0
       THEN NextRepo /\ Silent /\ UNCHANGED exit
       ELSE \E r \in RunResults(FALSE) :
               /\ Issue({Cmd("git pull", Repos[cursor], "", r)})
               /\ IF r = "failed"
                  THEN Fail("Error running git pull") /\ UNCHANGED cursor
                  ELSE pc' = "unsaved" /\ UNCHANGED <<cursor, exit>>
    /\ UNCHANGED <<args, env, registry, graphVars, pkgVersion, caught>>

\* publish.ts:823-833: getUnsavedChanges
CheckUnsaved ==
    /\ pc = "unsaved"
    /\ \E q \in QueryResults, unsavedChanges \in UncommittedChoices :
          /\ Issue({Cmd("git status --porcelain", Repos[cursor], "", q)})
          /\ IF q = "failed" THEN Catch
             ELSE /\ pc' = IF unsavedChanges = "" THEN "unpushed" ELSE "commit"
                  /\ UNCHANGED <<cursor, caught>>
    /\ UNCHANGED <<args, env, registry, graphVars, pkgVersion, exit>>

\* publish.ts:834 with commitChanges (publish.ts:130)
CommitChanges ==
    /\ pc = "commit"
    /\ \E r \in RunResults(args.dryRun) :
          /\ Issue({Cmd("git commit", Repos[cursor],
                        JoinMessages(Messages(Repos[cursor])), r)})
          /\ IF r = "failed" THEN Catch
             ELSE pc' = "unpushed" /\ UNCHANGED <<cursor, caught>>
    /\ UNCHANGED <<args, env, registry, graphVars, pkgVersion, exit>>

\* publish.ts:836-848 with getUnpushedCommitCount (publish.ts:83)
CountUnpushed ==
    /\ pc = "unpushed"
    /\ \E q \in QueryResults, unpushedCommitCount \in {0, 1} :
          /\ Issue({Cmd("git status --branch", Repos[cursor], "", q)})
          /\ IF q = "failed" THEN Catch
             ELSE IF unpushedCommitCount = 0 THEN NextRepo /\ UNCHANGED caught
             ELSE pc' = "push" /\ UNCHANGED <<cursor, caught>>
    /\ UNCHANGED <<args, env, registry, graphVars, pkgVersion, exit>>

\* push (publish.ts:142-154): on Buildkite the token is required, the remotes are
\* listed and origin-push is added when missing
PreparePush ==
    /\ pc = "push"
    /\ IF ~env.BUILDKITE
       THEN pc' = "pushcmd" /\ Silent /\ UNCHANGED <<cursor, caught>>
       ELSE IF ~env.GITHUB_TOKEN
       THEN Catch /\ Silent
       ELSE \E q \in QueryResults, hasOriginPush \in BOOLEAN :
               /\ Issue({Cmd("git remote", Repos[cursor], "", q)})
               /\ IF q = "failed" THEN Catch
                  ELSE /\ pc' = IF hasOriginPush THEN "pushcmd" ELSE "remote"
                       /\ UNCHANGED <<cursor, caught>>
    /\ UNCHANGED <<args, env, registry, graphVars, pkgVersion, exit>>

\* publish.ts:149-153
AddRemote ==
    /\ pc = "remote"
    /\ \E r \in RunResults(args.dryRun) :
          /\ Issue({Cmd("git remote add", Repos[cursor], "origin-push", r)})
          /\ IF r = "failed" THEN Catch
             ELSE pc' = "pushcmd" /\ UNCHANGED <<cursor, caught>>
    /\ UNCHANGED <<args, env, registry, graphVars, pkgVersion, exit>>

\* a push after which the changes of the same repository are committed again
PushCommand_ThenCommit ==
    /\ pc = "pushcmd"
    /\ \E r \in RunResults(args.dryRun) :
          /\ Issue({Cmd("git push", Repos[cursor],
                        IF env.BUILDKITE THEN "origin-push" ELSE "origin", r)})
          /\ IF r = "failed" THEN Catch ELSE pc' = "commit" /\ UNCHANGED <<cursor, caught>>
    /\ UNCHANGED <<args, env, registry, graphVars, pkgVersion, exit>>

\* publish.ts:155, 157
PushCommand ==
    /\ pc = "pushcmd"
    /\ \E r \in RunResults(args.dryRun) :
          /\ Issue({Cmd("git push", Repos[cursor],
                        IF env.BUILDKITE THEN "origin-push" ELSE "origin", r)})
          /\ IF r = "failed" THEN Catch ELSE NextRepo /\ UNCHANGED caught
    /\ UNCHANGED <<args, env, registry, graphVars, pkgVersion, exit>>

(***************************************************************************)
(* Specifications                                                          *)
(***************************************************************************)
Next ==
    \/ CheckGithubToken
    \/ SelectMode
    \/ PullRepo
    \/ StatusRepo
    \/ CheckFlags
    \/ ValidateRelease
    \/ LoadPackages
    \/ EnterGetLatestChanges
    \/ EnsureSaved
    \/ GetCommits
    \/ DiffCommits
    \/ ComputeVersion
    \/ ComputeAffected
    \/ ComputeOrder
    \/ TestGate
    \/ TestPackage
    \/ PublishGate
    \/ UpdateStudio
    \/ StartPackage
    \/ UpdatePins
    \/ WriteVersion
    \/ PublishPackage
    \/ BeginRepo
    \/ CheckUnsaved
    \/ CommitChanges
    \/ CountUnpushed
    \/ PreparePush
    \/ AddRemote
    \/ PushCommand

Spec == Init /\ [][Next]_vars

(***************************************************************************)
(* The graph stages over every workspace of at most MaxDeps declared       *)
(* dependencies: the run from the loading of the manifests to the publish  *)
(* order, with the change set getLatestChanges returns drawn directly.     *)
(***************************************************************************)
MaxDeps == 3

\* the entries a manifest may declare: every pair of photon, lift and sdk in either
\* kind, prisma2 on photon and lift, and entries the graph does not keep
GraphSlots ==
    {s \in {Slot(a, b, k) : a \in {Photon, Lift, Sdk}, b \in {Photon, Lift, Sdk},
                            k \in {"dep", "dev"}} : s.from # s.to}
    \cup {Slot(Prisma2, Photon, "dep"), Slot(Prisma2, Lift, "dev"),
          Slot(Sdk, "@prisma/engine-core", "dep"), Slot(Lift, Prisma2, "dep")}

\* the change sets getLatestChanges returns
GraphChangeSets ==
    {{"lift/src/index.ts"}, {"prisma2/cli/sdk/src/index.ts"},
     {"prisma2/cli/prisma2/src/bin.ts"}, {"photonjs/packages/photon/src/index.ts"},
     {"photonjs/README.md"}, {"lift/src/index.ts", "prisma2/cli/sdk/src/index.ts"}}

GraphInit ==
    /\ pc = "load"
    /\ \E slots \in KSubsets(GraphSlots, MaxDeps), t \in BOOLEAN, studio \in BOOLEAN :
          InitRun(RawWorkspace(slots, DefaultVersions, DefaultScripts),
                  [publish |-> FALSE, dryRun |-> FALSE, release |-> "", testAll |-> t],
                  [BUILDKITE |-> FALSE, GITHUB_TOKEN |-> FALSE, UPDATE_STUDIO |-> studio])

\* publish.ts:556-561: getLatestChanges as one step, returning one of the change sets
GetLatestChangesResult ==
    /\ pc = "changes"
    /\ \E c \in GraphChangeSets : changes' = c
    /\ pc' = "version"
    /\ Silent
    /\ UNCHANGED <<args, env, registry, rawPackages, packages, frame, prisma2Version,
                   changedPackages, publishOrder, cursor, pkgVersion, caught, exit>>

GraphNext ==
    \/ LoadPackages
    \/ GetLatestChangesResult
    \/ ComputeVersion
    \/ ComputeAffected
    \/ ComputeOrder

SpecGraph == GraphInit /\ [][GraphNext]_vars

(***************************************************************************)
(* The versions: the computation of the affected set and of the order for  *)
(* a change in lift, over the version strings the manifest of lift may     *)
(* hold, in a local run.                                                   *)
(***************************************************************************)
\* well-formed and malformed version strings, the patch numbers reaching 2^53
VersionInputs ==
    {major \o "." \o minor \o "." \o patchNumber \o suffix :
        major \in {"0", "1", "01"}, minor \in {"2", "10"},
        patchNumber \in {"0", "3", "9", "99", "007", "9007199254740990",
                         "9007199254740991", "9007199254740992", "9007199254740993"},
        suffix \in {"", "-alpha.5", "+build.1", "-rc.1+b-2", "-01", "-"}}
    \cup {"v1.2", "1.2", "", "1.2.3.4", Undefined}

VersionInit ==
    /\ pc = "affected"
    /\ \E v \in VersionInputs :
          LET raw == RawWorkspace(UsualLayout, [DefaultVersions EXCEPT ![Lift] = v],
                                  DefaultScripts)
          IN  /\ rawPackages = raw
              /\ packages = getPackageDependencies(raw)
    /\ args = [publish |-> FALSE, dryRun |-> FALSE, release |-> "", testAll |-> FALSE]
    /\ env = [BUILDKITE |-> FALSE, GITHUB_TOKEN |-> FALSE, UPDATE_STUDIO |-> FALSE]
    /\ registry \in [Anchors -> RemoteAlphaChoices]
    /\ frame = NoFrame
    /\ changes = {"lift/src/index.ts"}
    /\ prisma2Version = "2.0.0-alpha.8"
    /\ changedPackages = Unbuilt
    /\ publishOrder = <<>>
    /\ cursor = 0
    /\ pkgVersion = ""
    /\ issued = {}
    /\ last = {}
    /\ caught = {}
    /\ exit = [status |-> "running", error |-> ""]

VersionNext ==
    \/ ComputeAffected
    \/ ComputeOrder

SpecVersion == VersionInit /\ [][VersionNext]_vars

(***************************************************************************)
(* getNewPrisma2Version over the versions of the anchors: the run starts   *)
(* at publish.ts:567 with every combination of the two local versions and  *)
(* the two versions of the registry.                                       *)
(***************************************************************************)
\* versions with the counters 0, 7 and 12, a version without a counter, and the empty
\* answer of a registry without an alpha tag
AlphaInputs == {"2.0.0-alpha.0", "2.0.0-alpha.7", "2.0.0-alpha.12", "2.0.0-preview018", ""}

AlphaInit ==
    /\ pc = "version"
    /\ \E localPrisma2 \in AlphaInputs, localPhoton \in AlphaInputs :
          LET raw == RawWorkspace(UsualLayout,
                                  [DefaultVersions EXCEPT ![Prisma2] = localPrisma2,
                                                          ![Photon] = localPhoton],
                                  DefaultScripts)
          IN  /\ rawPackages = raw
              /\ packages = getPackageDependencies(raw)
    /\ registry \in [Anchors -> AlphaInputs]
    /\ args = [publish |-> FALSE, dryRun |-> FALSE, release |-> "", testAll |-> FALSE]
    /\ env = [BUILDKITE |-> FALSE, GITHUB_TOKEN |-> FALSE, UPDATE_STUDIO |-> FALSE]
    /\ frame = NoFrame
    /\ changes = {"lift/src/index.ts"}
    /\ prisma2Version = ""
    /\ changedPackages = Unbuilt
    /\ publishOrder = <<>>
    /\ cursor = 0
    /\ pkgVersion = ""
    /\ issued = {}
    /\ last = {}
    /\ caught = {}
    /\ exit = [status |-> "running", error |-> ""]

AlphaNext == ComputeVersion

SpecAlpha == AlphaInit /\ [][AlphaNext]_vars

(***************************************************************************)
(* Properties of the publish order                                         *)
(***************************************************************************)
\* the names handed to getPublishOrder (publish.ts:586)
PassedNames == IF args.testAll THEN ValuesOf(packages) ELSE changedPackages.order

\* D lists P in its dependencies or devDependencies
Lists(D, P) == Contains(packages[D].uses, P) \/ Contains(packages[D].usesDev, P)

\* the indices of the batches that hold n
BatchesOf(n) == {i \in 1..Len(publishOrder) : Contains(publishOrder[i], n)}

\* C1: when getPublishOrder returned batches for the set it was passed, every package P
\* of the set that another package D of the set lists in its dependencies or
\* devDependencies is in a batch of strictly smaller index than D, so no batch holds
\* two packages one of which depends on the other.
C1_DependencyBeforeDependant ==
    pc = "testgate" =>
        \A P \in Range(PassedNames), D \in Range(PassedNames) :
            Lists(D, P) =>
                /\ BatchesOf(P) # {}
                /\ BatchesOf(D) # {}
                /\ \A i \in BatchesOf(P), j \in BatchesOf(D) : i < j

\* an order of three batches or more was returned for a set in which some package
\* lists another in its devDependencies only
C1_Witness ==
    /\ pc = "testgate"
    /\ Len(publishOrder) >= 3
    /\ \E P \in Range(PassedNames), D \in Range(PassedNames) :
          Contains(packages[D].usesDev, P) /\ ~Contains(packages[D].uses, P)

(***************************************************************************)
(* Properties of the affected set                                          *)
(***************************************************************************)
\* forced mode (publish.ts:573)
Forced == args.release # "" \/ env.UPDATE_STUDIO

\* the seed: the anchors in forced mode, else the packages whose manifest directory
\* prefixes a changed path
SeedSet ==
    IF Forced THEN {Prisma2, Photon} \cap DOMAIN packages
    ELSE {n \in DOMAIN packages :
             \E c \in changes : startsWith(c, dirname(packages[n].path))}

\* the packages that list a package of S
DependantsOf(S) == {d \in DOMAIN packages : \E p \in S : Lists(d, p)}

\* the reverse-dependency closure of S
RECURSIVE DependantsClosure(_)
DependantsClosure(S) ==
    IF DependantsOf(S) \subseteq S THEN S ELSE DependantsClosure(S \cup DependantsOf(S))

\* the affected set of the run
Affected == Range(changedPackages.order)

\* C2: the set returned by getPackagesAffectedByChange is exactly the reverse-dependency
\* closure of the seed united with @prisma/photon: every transitive dependent is in
\* it, no other package is, and every member has its new version recorded.
C2_AffectedIsClosure ==
    changedPackages # Unbuilt =>
        /\ Affected = DependantsClosure(SeedSet \cup {Photon})
        /\ DOMAIN changedPackages.newVersion = Affected
        /\ Len(changedPackages.order) = Cardinality(Affected)

\* outside forced mode the affected set holds a package that is neither a seed nor
\* photon nor a direct dependent of one of them, reached through a dev dependency
C2_Witness ==
    /\ changedPackages # Unbuilt
    /\ ~Forced
    /\ \E n \in Affected :
          /\ n \notin SeedSet \cup {Photon}
          /\ n \notin DependantsOf(SeedSet \cup {Photon})
          /\ \E p \in Affected : Contains(packages[n].usesDev, p)

\* C3: once the affected set of a run is computed, both anchor packages are members
\* of it, whatever the graph, the change set and the mode.
C3_AnchorsAlwaysAffected ==
    changedPackages # Unbuilt => {Prisma2, Photon} \subseteq Affected

(***************************************************************************)
(* Properties of the cycle check                                           *)
(***************************************************************************)
\* two loaded packages list each other, in either kind
MutualPair(A, B) == A # B /\ Lists(A, B) /\ Lists(B, A)

\* C4: when two packages of the built graph list each other, getCircularDependencies
\* returns a non-empty list and the run has ended with the error of the cycle check:
\* no change set was read, no affected set or order computed, no command issued.
C4_MutualCycleAborts ==
    (\E A \in DOMAIN packages, B \in DOMAIN packages : MutualPair(A, B)) =>
        /\ Len(getCircularDependencies(packages)) > 0
        /\ pc = "exit"
        /\ exit = [status |-> "failed", error |-> "Oops, there are circular dependencies"]
        /\ changes = {}
        /\ prisma2Version = ""
        /\ changedPackages = Unbuilt
        /\ publishOrder = <<>>
        /\ issued = {}
        /\ last = {}

\* the run has ended on a graph whose only mutual pair is of differing kinds
C4_Witness ==
    /\ pc = "exit"
    /\ \E A \in DOMAIN packages, B \in DOMAIN packages :
          /\ Contains(packages[A].uses, B) /\ ~Contains(packages[A].usesDev, B)
          /\ Contains(packages[B].usesDev, A) /\ ~Contains(packages[B].uses, A)

(***************************************************************************)
(* Properties of the versions                                              *)
(***************************************************************************)
\* the version does not parse as major.minor.patch[-prerelease][+build]
Unparsable(version) == ~SemverRegexExec(version).matched

\* the commands that write a version into a manifest or publish it
ReleaseCmds == {"pnpm version", "pnpm publish"}

\* C5: a run whose affected set holds a package, other than the anchors, whose
\* version does not parse ends with a fatal error only, and no version-write or
\* publish command is ever executed for such a package.
C5_UnparsableVersionIsFatal ==
    /\ (changedPackages # Unbuilt /\ pc = "exit") =>
          \A n \in Affected \ {Prisma2, Photon} :
              Unparsable(packages[n].version) => exit.status = "failed"
    /\ \A c \in issued :
          (c.cmd \in ReleaseCmds /\ Executed(c) /\ c.target \notin {Prisma2, Photon})
              => ~Unparsable(packages[c.target].version)

\* the decimal digits of the successor of the number written s
RECURSIVE DecimalSucc(_)
DecimalSucc(s) ==
    IF Len(s) = 0 THEN "1"
    ELSE IF charAt(s, Len(s)) = "9" THEN DecimalSucc(slice(s, 1, Len(s) - 1)) \o "0"
    ELSE slice(s, 1, Len(s) - 1) \o ToString(DigitVal(charAt(s, Len(s))) + 1)

\* major.minor.(patch+1) of a well-formed version
Bumped(version) ==
    LET match == SemverRegexExec(version)
    IN  match.major \o "." \o match.minor \o "." \o DecimalSucc(match.patch)

\* C6: for a well-formed version of lift, the new version patchVersion returned for it
\* is major.minor.(patch+1), without prerelease and build metadata.
C6_PatchVersionIncrements ==
    (changedPackages # Unbuilt /\ ~Unparsable(packages[Lift].version)) =>
        changedPackages.newVersion[Lift] = Bumped(packages[Lift].version)

\* the commands that wrote the version of an anchor package
AnchorVersionWrites == {c \in issued : c.cmd = "pnpm version" /\ c.target \in {Prisma2, Photon}}

\* C7: every anchor package of the affected set has the shared version of the run as
\* its recorded newVersion and is published under it, and that version is the
\* release version whenever one was supplied.
C7_AnchorsShareVersion ==
    /\ changedPackages # Unbuilt =>
          \A a \in Affected \cap {Prisma2, Photon} :
              changedPackages.newVersion[a] = prisma2Version
    /\ \A c \in AnchorVersionWrites : c.arg = prisma2Version
    /\ \A c \in AnchorVersionWrites, d \in AnchorVersionWrites : c.arg = d.arg
    /\ (args.release # "" /\ prisma2Version # "") => prisma2Version = args.release

\* both anchors were written and published in a run with a release version
C7_Witness ==
    /\ args.release # ""
    /\ {Prisma2, Photon} \subseteq Affected
    /\ \A a \in {Prisma2, Photon} :
          /\ changedPackages.newVersion[a] = args.release
          /\ Cmd("pnpm version", a, args.release, "ok") \in issued
          /\ Cmd("pnpm publish", a, "latest", "ok") \in issued

(***************************************************************************)
(* Properties of the stages                                                *)
(***************************************************************************)
\* C8: in a run started with --dry-run that loaded the packages, no mutating command
\* is executed: each one issued is only logged.
C8_DryRunExecutesNothing ==
    (args.dryRun /\ packages # <<>>) =>
        \A c \in issued : c.cmd \in MutatingCmds => ~Executed(c)

\* position of x in seq
PositionIn(seq, x) == CHOOSE i \in 1..Len(seq) : seq[i] = x

\* C9: once the test command of a package has failed, the run has ended with an
\* error; the only commands issued are the tests of the packages before it in the
\* order, all passed, and its own: no later test, no pin update, version write,
\* publish, pull, commit or push.
C9_TestFailureStopsRun ==
    \A f \in issued :
        (f.cmd = "pnpm run test" /\ f.result = "failed") =>
            /\ pc = "exit"
            /\ exit.status = "failed"
            /\ \A c \in issued \ {f} :
                  /\ c.cmd = "pnpm run test"
                  /\ c.result = "ok"
                  /\ PositionIn(Order, c.target) < PositionIn(Order, f.target)

\* a test failed in a publishing run, after the test of an earlier package passed and
\* with a package still to test
C9_Witness ==
    /\ args.publish
    /\ \E f \in issued :
          /\ f.cmd = "pnpm run test" /\ f.result = "failed"
          /\ PositionIn(Order, f.target) < Len(Order)
          /\ \E c \in issued : c.cmd = "pnpm run test" /\ c.result = "ok"

\* C10: after the commit/push block of a repository threw and was caught, the run does
\* not fail: the later repositories are processed and the run ends successfully.
C10_CaughtErrorNeverFails ==
    caught # {} =>
        /\ exit.status # "failed"
        /\ pc = "exit" => cursor = Len(Repos) + 1

(***************************************************************************)
(* Properties of the commit / push stage                                   *)
(***************************************************************************)
\* every package of the order has been published (or, in a dry run, logged)
PublishStageDone ==
    /\ Order # <<>>
    /\ \A n \in Range(Order) :
          \E c \in issued :
              c.cmd = "pnpm publish" /\ c.target = n /\ c.result \in {"ok", "logged"}

\* C11: once every publish-stage action of the run has succeeded, the run does not
\* fail, whatever command fails while the repositories are committed and pushed.
C11_CommitStageNeverFails ==
    PublishStageDone => exit.status # "failed"

(***************************************************************************)
(* Properties of the order of the commands                                 *)
(***************************************************************************)
\* the commands of the publish stage run for a package
PublishCmds == {"pnpm update", "pnpm version", "pnpm publish"}

\* the command cmd was issued for package n and did not fail
Done(cmd, n) ==
    \E c \in issued : c.cmd = cmd /\ c.target = n /\ c.result \in {"ok", "logged"}

\* every operation of package m in the stage of the command cmd has completed
StageCompleted(cmd, m) ==
    IF cmd = "pnpm run test"
    THEN packages[m].scripts = "test" => Done("pnpm run test", m)
    ELSE /\ Len(PrismaDeps(m)) > 0 => Done("pnpm update", m)
         /\ Done("pnpm version", m)
         /\ Done("pnpm publish", m)

\* m is in an earlier batch than n
EarlierBatch(m, n) ==
    /\ BatchesOf(m) # {}
    /\ BatchesOf(n) # {}
    /\ \A i \in BatchesOf(m), j \in BatchesOf(n) : i < j

\* C12: when a test or publish-stage command has been issued for a package, every
\* operation of that stage of every package of an earlier batch has completed.
C12_BatchesInOrder ==
    \A c \in issued :
        c.cmd \in PackageCmds =>
            \A m \in Range(Order) : EarlierBatch(m, c.target) => StageCompleted(c.cmd, m)

\* a package of the third batch was tested and published after the packages of the
\* batches before it
C12_Witness ==
    /\ Len(publishOrder) >= 3
    /\ \E n \in Range(publishOrder[3]) :
          /\ Done("pnpm run test", n)
          /\ Done("pnpm publish", n)
          /\ \E m \in Range(publishOrder[1]) : Done("pnpm publish", m)

(***************************************************************************)
(* Properties of the pre-flight                                            *)
(***************************************************************************)
\* the positions of publish() before the manifests are loaded
PreflightPcs == {"start", "mode", "pull", "status", "flags", "release"}

\* the release version is valid semver, above the published version of prisma2 and
\* named after the preview scheme
ReleaseAccepted(release) ==
    /\ semverValid(release)
    /\ \E currentVersion \in PublishedPrisma2 : semverGt(release, currentVersion) = "true"
    /\ includes(release, "preview0")

\* the release versions of the runs that are accepted
AcceptedReleases == {r \in ReleaseChoices \cup TagChoices : ReleaseAccepted(r)}

\* the run ended in one of the modes --pull and --status
UtilityRunEnded ==
    /\ pc = "exit"
    /\ packages = <<>>
    /\ \E c \in last : c.cmd \in {"git pull", "git status"}

\* C13: with a release version (from --release or BUILDKITE_TAG) the run is past the
\* pre-flight only when the version is valid semver, greater than the published
\* version of prisma2 and contains 'preview0'; with any other release version the
\* run ends with a fatal error while no manifest is loaded and no graph is built.
C13_ReleaseValidated ==
    args.release # "" =>
        /\ (pc \notin PreflightPcs \cup {"exit"}) => args.release \in AcceptedReleases
        /\ packages # <<>> => args.release \in AcceptedReleases
        /\ (pc = "exit" /\ args.release \notin AcceptedReleases /\ ~UtilityRunEnded) =>
              /\ exit.status = "failed"
              /\ packages = <<>>
              /\ changedPackages = Unbuilt
              /\ publishOrder = <<>>

\* a valid release version named after the scheme was rejected for not being above
\* the published version
C13_Witness ==
    /\ pc = "exit"
    /\ semverValid(args.release)
    /\ includes(args.release, "preview0")
    /\ exit = [status |-> "failed",
               error |-> "is not greater than the current semver version"]
    /\ packages = <<>>

(***************************************************************************)
(* Properties of the change set                                            *)
(***************************************************************************)
\* the error of getChangesFromCommit (publish.ts:73)
NoChangesError == "No changes detected. This must not happen!"

\* C14: outside forced mode, the run goes on from the diff of the commits only when
\* every commit diffed has a changed path; when the change set of a commit is empty
\* the run has ended with the error 'No changes detected', with no affected set, no
\* order and no command issued.
C14_EmptyChangeSetIsFatal ==
    ~Forced =>
        /\ pc = "version" =>
              /\ \E q \in last : q.cmd = "git diff-tree"
              /\ \A q \in last :
                    /\ q.cmd = "git diff-tree"
                    /\ \E c \in changes : startsWith(c, q.target \o "/")
        /\ exit.error = NoChangesError =>
              /\ pc = "exit"
              /\ exit.status = "failed"
              /\ changes = {}
              /\ changedPackages = Unbuilt
              /\ publishOrder = <<>>
              /\ issued = {}

\* a publishing run outside forced mode ended on a commit without changes
C14_Witness ==
    /\ ~Forced
    /\ args.publish
    /\ exit = [status |-> "failed", error |-> NoChangesError]
    /\ \E q \in last : q.cmd = "git diff-tree" /\ q.result = "ok"

(***************************************************************************)
(* Fatal errors before and during the publish stage                        *)
(***************************************************************************)
\* the steps of publish() up to the end of testPackages (publish.ts:472-603), without
\* the loops of --pull and --status
PrePublishPcs ==
    {"start", "mode", "flags", "release", "load", "changes", "ensure", "commits", "diff",
     "version", "affected", "order", "testgate", "test"}

NoMutation(cmds) == \A c \in cmds : c.cmd \notin MutatingCmds

\* a step taken before the publish stage
PrePublishStep ==
    pc \in PrePublishPcs =>
        /\ NoMutation(issued)
        /\ (pc' = "exit" /\ exit'.status = "failed") => NoMutation(issued')

\* C15: while a run is before its publish stage no mutating command (update of pins,
\* write of a version, publish, git pull, commit, remote, push) has been issued, and a
\* fatal error raised there ends the run with none issued.
C15_FatalBeforePublishMutatesNothing == [][PrePublishStep]_vars

\* a publishing run ended by a failed test, after another test had passed
C15_Witness ==
    /\ pc = "exit"
    /\ exit = [status |-> "failed", error |-> "Error running pnpm run test"]
    /\ args.publish
    /\ \E c \in issued : c.cmd = "pnpm run test" /\ c.result = "failed"
    /\ \E c \in issued : c.cmd = "pnpm run test" /\ c.result = "ok"
    /\ NoMutation(issued)

\* a command of the publish stage failed for package n
FailedStep(n) ==
    \E c \in issued : c.cmd \in PublishCmds /\ c.target = n /\ c.result = "failed"

GitMutations == {"git pull", "git commit", "git remote add", "git push"}

\* C16: once an update of pins, a write of the version or a publish has failed for a
\* package, the run has ended as failed; no command of the publish stage was issued for
\* a package later in the order, no pull, commit or push was issued, and every package
\* earlier in the order is still recorded as published: the only commands ever issued
\* are the tests, the three of the publish stage, the update of studio and git's.
C16_PublishFailureStopsRun ==
    /\ \A c \in issued : c.cmd \in PackageCmds \cup MutatingCmds \cup {"git status"}
    /\ \A n \in DOMAIN packages :
          FailedStep(n) =>
              /\ pc = "exit"
              /\ exit.status = "failed"
              /\ \A c \in issued :
                    /\ c.cmd \notin GitMutations
                    /\ c.cmd \in PublishCmds =>
                          PositionIn(Order, c.target) <= PositionIn(Order, n)
              /\ \A m \in Range(Order) :
                    PositionIn(Order, m) < PositionIn(Order, n) =>
                        \E c \in issued :
                            c.cmd = "pnpm publish" /\ c.target = m /\ c.result = "ok"

\* a publish failed in the middle of the order, after another package was published
C16_Witness ==
    /\ pc = "exit"
    /\ exit.status = "failed"
    /\ \E n \in Range(Order) :
          /\ \E c \in issued :
                c.cmd = "pnpm publish" /\ c.target = n /\ c.result = "failed"
          /\ PositionIn(Order, n) > 1
          /\ PositionIn(Order, n) < Len(Order)
          /\ \E c \in issued :
                c.cmd = "pnpm publish" /\ c.target # n /\ c.result = "ok"

\* the records of command cmd for package n
Records(cmd, n) == {c \in issued : c.cmd = cmd /\ c.target = n}

\* C17: in the publish stage the pins of a package are updated only when it has
\* dependencies of the workspace (uses or usesDev), the version is written only after
\* the update of the pins, when there is one, has succeeded, and the package is
\* published only after its version write has succeeded; each of the three commands is
\* issued at most once for a package.
C17_PublishStepsInOrder ==
    \A n \in DOMAIN packages :
        /\ \A cmd \in PublishCmds : Cardinality(Records(cmd, n)) <= 1
        /\ Records("pnpm update", n) # {} => Len(PrismaDeps(n)) > 0
        /\ Records("pnpm version", n) # {} =>
              (Len(PrismaDeps(n)) > 0 <=> Done("pnpm update", n))
        /\ Records("pnpm publish", n) # {} => Done("pnpm version", n)

\* a package with dependencies went through the three steps, and one without
\* dependencies through the last two
C17_Witness ==
    /\ ~args.dryRun
    /\ \E n \in DOMAIN packages :
          /\ Len(PrismaDeps(n)) > 0
          /\ \A cmd \in PublishCmds : \E c \in Records(cmd, n) : c.result = "ok"
    /\ \E m \in DOMAIN packages :
          /\ Len(PrismaDeps(m)) = 0
          /\ Records("pnpm update", m) = {}
          /\ \E c \in Records("pnpm publish", m) : c.result = "ok"

(***************************************************************************)
(* Properties of the publish tag                                           *)
(***************************************************************************)
PublishRecords == {c \in issued : c.cmd = "pnpm publish"}

\* a version with a pre-release part, as semver reads it
IsPrerelease(v) == semverParse(v).matched /\ semverParse(v).prerelease # ""

\* C18 as stated: every package that is not an anchor is published under 'latest', and
\* an anchor under 'alpha' exactly when the shared version is a pre-release version,
\* else under 'latest'.
C18_AlphaIffPrerelease ==
    \A c \in PublishRecords :
        IF c.target \in {Prisma2, Photon}
        THEN c.arg = (IF IsPrerelease(prisma2Version) THEN "alpha" ELSE "latest")
        ELSE c.arg = "latest"

\* C18 amended: every package that is not an anchor is published under 'latest', and
\* an anchor under 'alpha' exactly when the shared version contains 'alpha', else under
\* 'latest'; the version of a run without a release version always contains 'alpha'.
C18_AlphaIffVersionHasAlpha ==
    /\ \A c \in PublishRecords :
          IF c.target \in {Prisma2, Photon}
          THEN c.arg = (IF includes(prisma2Version, "alpha") THEN "alpha" ELSE "latest")
          ELSE c.arg = "latest"
    /\ (PublishRecords # {} /\ args.release = "") => includes(prisma2Version, "alpha")

\* an anchor was published under 'alpha' and another package under 'latest'
C18_Witness ==
    /\ args.release = ""
    /\ \E a \in {Prisma2, Photon} : Cmd("pnpm publish", a, "alpha", "ok") \in issued
    /\ \E c \in PublishRecords :
          c.target \notin {Prisma2, Photon} /\ c.arg = "latest" /\ c.result = "ok"

(***************************************************************************)
(* Cycles in the set handed to getPublishOrder                             *)
(***************************************************************************)
\* the packages of S that depend, directly or through packages of S, on a package of F
RECURSIVE DependantsWithin(_, _)
DependantsWithin(S, F) ==
    LET next == F \cup (DependantsOf(F) \cap S)
    IN  IF next = F THEN F ELSE DependantsWithin(S, next)

\* a package of S depends on itself through packages of S
HasCycle(S) == \E n \in S : n \in DependantsWithin(S, DependantsOf({n}) \cap S)

\* C19: when the set handed to getPublishOrder holds a dependency cycle, of any length,
\* getPublishOrder returns no batches: the run has ended with the error of the sort
\* and has issued no command at all (no test, update of pins, version write, publish,
\* pull, commit or push).
C19_CycleFailsBeforeAnyAction ==
    (changedPackages # Unbuilt /\ pc # "order" /\ HasCycle(Range(PassedNames))) =>
        /\ pc = "exit"
        /\ exit = [status |-> "failed", error |-> "Cycle(s) detected"]
        /\ publishOrder = <<>>
        /\ issued = {}

\* a publishing run ended on a cycle of three packages, none of which is in a mutual
\* pair
C19_Witness ==
    /\ pc = "exit"
    /\ exit.error = "Cycle(s) detected"
    /\ args.publish
    /\ changedPackages # Unbuilt
    /\ HasCycle(Range(PassedNames))
    /\ Cardinality(Range(PassedNames)) >= 3
    /\ ~\E A \in DOMAIN packages, B \in DOMAIN packages : Lists(A, B) /\ Lists(B, A)

(***************************************************************************)
(* Properties of the shared version                                        *)
(***************************************************************************)
\* the four versions getNewPrisma2Version observes (publish.ts:428-433)
ObservedVersions ==
    {packages[Prisma2].version, packages[Photon].version,
     registry[Prisma2], registry[Photon]}

\* the alpha counters found among them
ObservedCounters == {ToNat(AlphaCapture(v)) : v \in {w \in ObservedVersions : AlphaCapture(w) # ""}}

MaxCounter == CHOOSE m \in ObservedCounters : \A k \in ObservedCounters : k <= m

\* C20: without a release version, the shared version computed from four observed
\* versions among which an alpha counter is found is 2.0.0-alpha.(M+1), M being the
\* greatest counter found; a counter of 0 counts, and versions without a counter are
\* passed over.
C20_NextAlphaVersion ==
    (pc = "affected" /\ args.release = "" /\ ObservedCounters # {}) =>
        prisma2Version = "2.0.0-alpha." \o ToString(MaxCounter + 1)

(***************************************************************************)
(* Forced mode and the change set                                          *)
(***************************************************************************)
\* the affected set of a forced run, which depends on the packages alone
ForcedAffected == DependantsClosure(({Prisma2, Photon} \cap DOMAIN packages) \cup {Photon})

\* C21: in forced mode (a release version or UPDATE_STUDIO) the change set is ignored:
\* the outcome of the run does not depend on its contents, so the run never ends on a
\* change set that is empty, and the affected set is the one the packages alone
\* determine, whatever the change set holds.
C21_ForcedIgnoresChangeSet ==
    Forced =>
        /\ exit.error # NoChangesError
        /\ changedPackages # Unbuilt => Affected = ForcedAffected

(***************************************************************************)
(* Configuration errors                                                    *)
(***************************************************************************)
\* the errors of publish.ts:477, 499, 519, 527, 536 and of push (publish.ts:145)
ConfigurationErrors ==
    {"Missing env var GITHUB_TOKEN",
     "Can't use --dry-run and --publish at the same time",
     "is not a valid semver version",
     "is not greater than the current semver version",
     "does not follow the preview naming scheme"}

\* C22: a run that ended on a configuration error (release version invalid, not
\* greater or wrongly named; --dry-run with --publish; GITHUB_TOKEN missing) has
\* failed without loading the packages and without any command or query issued, the
\* step that raised the error included; and no run reaches the push of a Buildkite
\* build without the token.
C22_ConfigurationErrorsComeFirst ==
    /\ exit.error \in ConfigurationErrors =>
          /\ pc = "exit"
          /\ exit.status = "failed"
          /\ packages = <<>>
          /\ issued = {}
          /\ last = {}
    /\ ~(pc = "push" /\ env.BUILDKITE /\ ~env.GITHUB_TOKEN)

(***************************************************************************)
(* Order of the stages                                                     *)
(***************************************************************************)
\* the step being taken issues command cmd
Issues(cmd) == \E c \in last' : c.cmd = cmd

\* the steps of the commit / push loop (publish.ts:816-856)
CommitStagePcs == {"repo", "unsaved", "commit", "unpushed", "push", "remote", "pushcmd"}

PublishStageCmds == PublishCmds \cup {"pnpm update studio"}

\* tests come before every mutating command, the publish stage before every command
\* of git, and git follows the complete publish stage (the loop of --pull, which is
\* no stage of the pipeline, aside)
StagesInOrder ==
    /\ Issues("pnpm run test") => \A c \in issued : c.cmd \notin MutatingCmds
    /\ (\E cmd \in PublishStageCmds : Issues(cmd)) =>
          \A c \in issued : c.cmd \notin GitMutations
    /\ (pc # "pull" /\ \E cmd \in GitMutations : Issues(cmd)) =>
          pc \in CommitStagePcs /\ PublishStageDone

C23_NoCommitAfterAnyPushStep ==
    StagesInOrder /\ (Issues("git commit") => \A c \in issued : c.cmd # "git push")

\* C23 as stated: tests, then the publish stage, then the commits, then the pushes: no
\* publish-stage command is issued before the last test, no commit before the last
\* publish-stage command, and no commit once a push has been issued.
C23_StagesInOrder == [][C23_NoCommitAfterAnyPushStep]_vars

\* the repositories are handled one after the other: a commit and a push are issued
\* for the repository the loop is at, a push moves the loop to the next repository and
\* the loop never goes back
RepoByRepo ==
    /\ \A c \in last' :
          /\ c.cmd = "git commit" => pc = "commit" /\ c.target = Repos[cursor]
          /\ c.cmd = "git push" =>
                pc = "pushcmd" /\ c.target = Repos[cursor] /\ cursor' = cursor + 1
    /\ (pc \in CommitStagePcs /\ pc' \in CommitStagePcs) => cursor' >= cursor

C23_RepoByRepoStep == StagesInOrder /\ RepoByRepo

\* C23 amended: tests, then the publish stage, then commit and push repository by
\* repository: no publish-stage command is issued before the last test, no command of
\* git before the last publish-stage command, and no commit of a repository once the
\* push of that repository has been issued; the commit of a later repository does
\* follow the push of an earlier one.
C23_StagesInOrderPerRepo == [][C23_RepoByRepoStep]_vars

\* the changes of a later repository were committed after a push, in a run that tested
\* and published
C23_Witness ==
    /\ \E c \in last : c.cmd = "git commit" /\ c.target # Repos[1] /\ c.result = "ok"
    /\ \E c \in issued : c.cmd = "git push"
    /\ \E c \in issued : c.cmd = "pnpm run test" /\ c.result = "ok"
    /\ \E c \in issued : c.cmd = "pnpm publish" /\ c.result = "ok"

(***************************************************************************)
(* Properties of the commit message                                        *)
(***************************************************************************)
\* the packages of the affected set whose manifest is in repository repo
ReleasedFrom(repo) == {n \in Affected : startsWith(packages[n].path, repo)}

\* the versions written for package n in the publish stage
PublishedVersions(n) == {c.arg : c \in Records("pnpm version", n)}

\* C24: the message of the commit of a repository has an entry name@version for each
\* package released from that repository, version being the version the package was
\* published under in this run, and no entry for any other package.
C24_CommitMessageListsPublished ==
    \A c \in last :
        c.cmd = "git commit" =>
            /\ \A n \in ReleasedFrom(c.target) :
                  \E v \in PublishedVersions(n) : includes(c.arg, n \o "@" \o v)
            /\ \A n \in DOMAIN packages \ ReleasedFrom(c.target) :
                  ~includes(c.arg, n \o "@")

(***************************************************************************)
(* Properties of the dependency graph                                      *)
(***************************************************************************)
\* the entries of uses and usesDev that name no loaded package
Unloaded(n) == Range(packages[n].uses \o packages[n].usesDev) \ DOMAIN packages

NoDuplicates(seq) == Cardinality(Range(seq)) = Len(seq)

\* C25: once the graph is built it holds every loaded package, and for loaded packages
\* A and B, A is in usedBy of B exactly when B is in uses of A, and in usedByDev of B
\* exactly when B is in usesDev of A; the reverse lists name loaded packages only, each
\* once, so a declared dependency that is not loaded leaves no reverse edge, and it
\* does not end the run.
C25_ReverseEdgesMirrorForward ==
    pc # "load" =>
        /\ DOMAIN packages = DOMAIN rawPackages
        /\ \A A \in DOMAIN packages, B \in DOMAIN packages :
              /\ Contains(packages[B].usedBy, A) <=> Contains(packages[A].uses, B)
              /\ Contains(packages[B].usedByDev, A) <=> Contains(packages[A].usesDev, B)
        /\ \A n \in DOMAIN packages :
              /\ Range(packages[n].usedBy \o packages[n].usedByDev) \subseteq DOMAIN packages
              /\ NoDuplicates(packages[n].usedBy)
              /\ NoDuplicates(packages[n].usedByDev)
        /\ pc = "exit" =>
              \/ changes # {}
              \/ \E A \in DOMAIN packages, B \in DOMAIN packages : Lists(A, B) /\ Lists(B, A)

\* a graph with a dependency that is not loaded, a runtime and a dev reverse edge, with
\* which the run went on
C25_Witness ==
    /\ pc = "changes"
    /\ \E n \in DOMAIN packages : Unloaded(n) # {}
    /\ \E n \in DOMAIN packages : Len(packages[n].usedBy) > 0
    /\ \E n \in DOMAIN packages : Len(packages[n].usedByDev) > 0

(***************************************************************************)
(* The batches are the layers of the graph                                 *)
(***************************************************************************)
\* the packages in the batches before batch i
Scheduled(i) == UNION {Range(publishOrder[j]) : j \in 1..(i - 1)}

\* the packages of the passed set that n lists
InSetDependencies(n) == {p \in Range(PassedNames) : Lists(n, p)}

\* the packages not yet scheduled whose dependencies in the set all are
Layer(i) ==
    {n \in Range(PassedNames) \ Scheduled(i) : InSetDependencies(n) \subseteq Scheduled(i)}

\* C26: the batches getPublishOrder returns are the maximal layers of the set it was
\* passed: the first batch is exactly the packages without a dependency in the set,
\* and every later batch is exactly the packages not yet scheduled whose dependencies
\* in the set are all in earlier batches; every package of the set is in one batch.
\* Only a set with a cycle makes getPublishOrder fail.
C26_BatchesAreLayers ==
    /\ pc = "testgate" =>
          /\ \A i \in 1..Len(publishOrder) :
                /\ Range(publishOrder[i]) = Layer(i)
                /\ NoDuplicates(publishOrder[i])
                /\ publishOrder[i] # <<>>
          /\ Scheduled(Len(publishOrder) + 1) = Range(PassedNames)
    /\ (changedPackages # Unbuilt /\ pc = "exit") => HasCycle(Range(PassedNames))

\* a chain of three packages gave three batches of one package
C26_Witness ==
    /\ pc = "testgate"
    /\ Len(publishOrder) = 3
    /\ \A i \in 1..3 : Len(publishOrder[i]) = 1
    /\ Lists(publishOrder[2][1], publishOrder[1][1])
    /\ Lists(publishOrder[3][1], publishOrder[2][1])
    /\ ~Lists(publishOrder[3][1], publishOrder[1][1])

(***************************************************************************)
(* Termination of the expansion of the affected set                        *)
(***************************************************************************)
\* the affected packages the expansion returns for the graph and change set of the run
ExpansionResult == AffectedNames(packages, changes, Forced)

\* C27: for every graph that passed the check of circular dependencies, graphs with a
\* cycle of three packages included, the expansion of getPackagesAffectedByChange
\* returns: it has a result, which holds each package once and loaded packages only,
\* and that result is the affected set the run goes on with.
C27_ExpansionTerminates ==
    /\ pc = "affected" =>
          /\ NoDuplicates(ExpansionResult)
          /\ Range(ExpansionResult) \subseteq DOMAIN packages
          /\ Len(ExpansionResult) <= Cardinality(DOMAIN packages)
    /\ changedPackages # Unbuilt =>
          /\ changedPackages.order = ExpansionResult
          /\ NoDuplicates(changedPackages.order)

\* the affected set was computed for a graph with a cycle of three packages and holds
\* the cycle
C27_Witness ==
    /\ pc = "order"
    /\ HasCycle(Affected)
    /\ Cardinality(Affected) >= 3
    /\ NoDuplicates(changedPackages.order)
    /\ ~\E A \in DOMAIN packages, B \in DOMAIN packages : Lists(A, B) /\ Lists(B, A)

(***************************************************************************)
(* The guard of uncommitted changes                                        *)
(***************************************************************************)
\* the answer of `git status --porcelain` that does not stop the run
Tolerated(repo, unsavedChanges) ==
    \/ unsavedChanges = ""
    \/ repo = "prisma2" /\ unsavedChanges = "M cli/prisma2/package.json"

\* the status of the repositories was asked for
GuardRan == frame.unsaved # <<>>

TestOnly == ~args.publish /\ args.release = "" /\ ~args.dryRun

\* C28: when the guard ran and a repository has uncommitted changes other than the
\* tolerated change of prisma2's cli/prisma2/package.json, the run has ended with the
\* error of the guard: no commit was looked up, no change set read, no command run.
\* The guard runs unless the mode is test-only or --dirty was given: in a test-only
\* mode it never runs, and the run goes on to the commits only with a guard that was
\* skipped or that found tolerated answers.
C28_UnsavedChangesAbort ==
    /\ (GuardRan /\ \E r \in Range(Repos) : ~Tolerated(r, frame.unsaved[r])) =>
          /\ pc = "exit"
          /\ exit = [status |-> "failed", error |-> "has unsaved changes"]
          /\ frame.commits = {}
          /\ changes = {}
          /\ issued = {}
          /\ \A q \in last : q.cmd = "git status --porcelain"
    /\ TestOnly => ~GuardRan
    /\ pc \in {"commits", "diff"} => (GuardRan <=> ~frame.dirty)

\* the guard stopped a publishing run on a change in lift, the change of prisma2 being
\* the tolerated one
C28_Witness ==
    /\ pc = "exit"
    /\ args.publish
    /\ exit.error = "has unsaved changes"
    /\ GuardRan
    /\ frame.unsaved["prisma2"] = "M cli/prisma2/package.json"
    /\ frame.unsaved["lift"] = "M src/index.ts"
    /\ frame.unsaved["photonjs"] = ""

(***************************************************************************)
(* Packages without a test script                                          *)
(***************************************************************************)
\* the error of reading `test` of a scripts section that is not there (publish.ts:649)
NoScriptsError == "TypeError: Cannot read property 'test' of undefined"

\* C29: a package without a test action, be it that its scripts have no test entry or
\* that its manifest has no scripts at all, is skipped in the test stage: no test
\* command is issued for it and no error is raised for it, so the run never ends on
\* the missing scripts section.
C29_PackagesWithoutTestAreSkipped ==
    /\ \A c \in issued : c.cmd = "pnpm run test" => packages[c.target].scripts = "test"
    /\ exit.error # NoScriptsError

(***************************************************************************)
(* The value of --repo                                                     *)
(***************************************************************************)
\* C30: getLatestChanges rejects a --repo value that is none of prisma2, lift and
\* photonjs before it does anything with it: it never goes on with such a value, and
\* no command of git is ever issued in a directory of that name.
C30_UnknownRepoIsRejected ==
    /\ frame.repo \in Range(Repos) \cup {""}
    /\ \A q \in last :
          startsWith(q.cmd, "git") => q.target \in Range(Repos) \cup {"", "."}

(***************************************************************************)
(* The packages of the publish stage                                       *)
(***************************************************************************)
\* C31: whatever the flags of the run, --test-all together with --publish included,
\* every package for which a pin update, a version write or a publish command is
\* issued is a member of the affected set of the run.
C31_OnlyAffectedArePublished ==
    \A c \in issued : c.cmd \in PublishCmds => c.target \in Affected

(***************************************************************************)
(* The batches partition the affected set                                  *)
(***************************************************************************)
\* the dependents, of either kind, recorded for package n
ReverseEdges(n) == Range(packages[n].usedBy \o packages[n].usedByDev)

\* C32: when getPublishOrder is handed the affected set of getPackagesAffectedByChange,
\* every reverse edge of an affected package points inside the set; on a graph without
\* a cycle the order is returned, and its batches partition the set: every affected
\* package is in exactly one batch, once, and no batch holds another name.
C32_BatchesPartitionAffected ==
    (changedPackages # Unbuilt /\ ~args.testAll) =>
        /\ \A n \in Affected : ReverseEdges(n) \subseteq Affected
        /\ pc = "exit" => HasCycle(DOMAIN packages)
        /\ pc = "testgate" =>
              /\ \A n \in Affected : Cardinality(BatchesOf(n)) = 1
              /\ \A i \in 1..Len(publishOrder) :
                    /\ Range(publishOrder[i]) \subseteq Affected
                    /\ NoDuplicates(publishOrder[i])

\* batches were returned for an affected set of three packages or more that leaves a
\* package of the workspace out, one that an affected package lists
C32_Witness ==
    /\ pc = "testgate"
    /\ ~args.testAll
    /\ Cardinality(Affected) >= 3
    /\ Len(publishOrder) >= 2
    /\ \E n \in Affected, p \in DOMAIN packages \ Affected : Lists(n, p)

(***************************************************************************)
(* The version of a package that is no anchor                              *)
(***************************************************************************)
\* C33: for every affected package other than prisma2 and @prisma/photon, the version
\* written to its manifest in the publish stage, which is the version published, is
\* the newVersion recorded for it in the affected set earlier in the run, on
\* Buildkite too, where the registry is asked at both times and may answer
\* differently.
C33_WrittenVersionIsRecordedVersion ==
    \A c \in issued :
        (c.cmd = "pnpm version" /\ c.target \in Affected \ Anchors) =>
            c.arg = changedPackages.newVersion[c.target]

====
